---- MODULE Spec2Model ----
(***************************************************************************)
(* bittorrent-rs: the swarm driver (client/mod.rs), the piece manager and  *)
(* piece picker (piece/), the peer session (peer/connection.rs), the       *)
(* storage striper (storage/mod.rs) and the info-hash computation          *)
(* (torrent/metainfo.rs), as state machines.                               *)
(*                                                                         *)
(* Option<T> is a sequence of length at most one: None == <<>>,            *)
(* Some(x) == <<x>>.  Bytes are small naturals.                            *)
(***************************************************************************)
EXTENDS Integers, Sequences, FiniteSets, TLC

\* ------------------------------------------------------------------ bounds
\* Number of pieces of the torrent (metainfo.info.pieces.len()).
NumPieces == 2
\* metainfo.info.piece_length, in bytes.
PieceLength == 2
\* Block size used by the state machine, in bytes (BLOCK_SIZE scaled down).
BlockLen == 1
\* Number of connected peers, which is also the number of worker tasks.
NumPeers == 2

Pieces == 0 .. (NumPieces - 1)
Peers == 1 .. NumPeers
Workers == 1 .. NumPeers

None == <<>>
Some(x) == <<x>>

Min(a, b) == IF a < b THEN a ELSE b

RECURSIVE Pow2(_)
Pow2(n) == IF n = 0 THEN 1 ELSE 2 * Pow2(n - 1)

\* ------------------------------------------------------------- the content
\* The byte of the torrent's content at global offset g (what an honest
\* seeder serves, and what the descriptor's piece hashes were computed from).
ContentByte(g) == IF g \in {0, 1, 3, 6, 10, 15} THEN 1 ELSE 0

\* SHA-1 of a byte sequence: a digest that is injective on the byte
\* sequences of the model (length and bytes both enter the digest).
RECURSIVE Sha1Acc(_, _)
Sha1Acc(data, acc) ==
    IF data = <<>> THEN acc ELSE Sha1Acc(Tail(data), acc * 3 + Head(data) + 1)

Sha1(data) == Sha1Acc(data, 0)

\* ------------------------------------------------------------------- state
VARIABLES
    total_length,   \* metainfo.info.total_length
    pieces,         \* PieceManager.pieces: index -> [length, state, hash]
    downloading,    \* PieceManager.downloading: index -> assembly buffer
    picker,         \* PiecePicker
    conns,          \* the PeerConnection objects: peer -> [state, bitfield]
    pool,           \* peer_connections: Vec<PeerConnection>, a stack
    kind,           \* the remote of each connection: "seed" or "any"
    inbox,          \* frames a seed has sent that were not received yet
    pc,             \* each worker task's position
    piece_index,    \* each worker's piece_index
    peer,           \* each worker's popped connection (Option)
    block_index,    \* each worker's block_index in the request loop
    piece_data,     \* each worker's piece_data, returned by complete_piece
    result,         \* each worker's result of download_piece_from_peer
    receive_result, \* each worker's last frame from receive_message (Option)
    requested,      \* the Request frames each worker sent in its current attempt
    files,          \* StorageManager.files: <<[length, offset]>>
    disk,           \* the files' contents: file -> bytes, -1 where unwritten
    outcome,        \* what download() returned: "running", "Ok" or "Err"
    raw_data,       \* parse_torrent: the bytes of the torrent descriptor
    load_pc,        \* parse_torrent: "parse", "hash", "scan", "Ok", "Err"; "idle"
    info_start,     \* calculate_info_hash: the position after the first "4:info"
    scan_i,         \* extract_info_dict: the loop's index i
    depth,          \* extract_info_dict: the loop's depth
    hashed,         \* calculate_info_hash: the bytes given to the hasher
    codec,          \* the conversion under test: "bencode", "message", "handshake"; "none"
    codec_in,       \* the value given to the encoder, None if bytes are given
    codec_bytes,    \* the bytes the encoder produced, or the bytes given
    codec_out,      \* what the decoder returned for codec_bytes
    locks           \* the three tokio Mutexes: lock -> [holder, waiters]

downloadVars == <<total_length, pieces, downloading, picker, conns, pool, kind,
                  inbox, pc, piece_index, peer, block_index, piece_data, result,
                  receive_result, requested, files, disk, outcome>>

torrentVars == <<raw_data, load_pc, info_start, scan_i, depth, hashed>>

codecVars == <<codec, codec_in, codec_bytes, codec_out>>

lockVars == <<locks>>

vars == <<downloadVars, torrentVars, codecVars, lockVars>>

\* ----------------------------------------------------------- PieceManager
\* The length PieceManager::new gives piece `index`.
PieceLengthOf(index, total) ==
    IF index = NumPieces - 1
    THEN LET remainder == total % PieceLength
         IN IF remainder = 0 THEN PieceLength ELSE remainder
    ELSE PieceLength

\* The content of piece `index`, of `len` bytes.
PieceContent(index, len) ==
    [k \in 1 .. len |-> ContentByte(index * PieceLength + k - 1)]

PieceManager_new(total) ==
    [index \in Pieces |->
        [length |-> PieceLengthOf(index, total),
         state  |-> "Missing",
         hash   |-> Sha1(PieceContent(index, PieceLengthOf(index, total)))]]

Zeros(n) == [k \in 1 .. n |-> 0]

\* A map with key i set to v, and with key i removed.
Insert(m, i, v) == [j \in DOMAIN m \cup {i} |-> IF j = i THEN v ELSE m[j]]
Remove(m, i) == [j \in DOMAIN m \ {i} |-> m[j]]

\* start_piece without its check that the piece is Missing.
Mut_start_piece(ps, dl, index) ==
    IF index >= Cardinality(DOMAIN ps)
    THEN [ok |-> FALSE, pieces |-> ps, downloading |-> dl]
    ELSE [ok |-> TRUE,
          pieces |-> [ps EXCEPT ![index].state = "Downloading"],
          downloading |-> Insert(dl, index, Zeros(ps[index].length))]

\* start_piece: [ok, pieces, downloading].
start_piece(ps, dl, index) ==
    IF index >= Cardinality(DOMAIN ps)
    THEN [ok |-> FALSE, pieces |-> ps, downloading |-> dl]
    ELSE IF ps[index].state # "Missing"
    THEN [ok |-> FALSE, pieces |-> ps, downloading |-> dl]
    ELSE [ok |-> TRUE,
          pieces |-> [ps EXCEPT ![index].state = "Downloading"],
          downloading |-> Insert(dl, index, Zeros(ps[index].length))]

\* add_block without the check against the buffer's length.
Mut_add_block(dl, index, offset, data) ==
    IF index \notin DOMAIN dl
    THEN [ok |-> FALSE, downloading |-> dl]
    ELSE [ok |-> TRUE,
          downloading |->
            [dl EXCEPT ![index] =
                [k \in 1 .. Len(dl[index]) |->
                    IF k > offset /\ k <= offset + Len(data)
                    THEN data[k - offset] ELSE dl[index][k]]]]

\* add_block: [ok, downloading].
add_block(dl, index, offset, data) ==
    IF index \notin DOMAIN dl
    THEN [ok |-> FALSE, downloading |-> dl]
    ELSE IF offset + Len(data) > Len(dl[index])
    THEN [ok |-> FALSE, downloading |-> dl]
    ELSE [ok |-> TRUE,
          downloading |->
            [dl EXCEPT ![index] =
                [k \in 1 .. Len(dl[index]) |->
                    IF k > offset /\ k <= offset + Len(data)
                    THEN data[k - offset] ELSE dl[index][k]]]]

\* A hash comparison that accepts every buffer.
Mut_HashMatches(data, hash) == TRUE

\* Whether complete_piece accepts the buffer: its SHA-1 is the piece's hash.
HashMatches(data, hash) == Sha1(data) = hash

\* complete_piece that leaves a piece that failed verification Downloading.
Mut_complete_piece(ps, dl, index) ==
    IF index \notin DOMAIN dl
    THEN [ok |-> FALSE, pieces |-> ps, downloading |-> dl, data |-> <<>>]
    ELSE IF ~HashMatches(dl[index], ps[index].hash)
    THEN [ok |-> FALSE, pieces |-> ps, downloading |-> Remove(dl, index),
          data |-> <<>>]
    ELSE [ok |-> TRUE,
          pieces |-> [ps EXCEPT ![index].state = "Complete"],
          downloading |-> Remove(dl, index),
          data |-> dl[index]]

\* complete_piece: [ok, pieces, downloading, data].
complete_piece(ps, dl, index) ==
    IF index \notin DOMAIN dl
    THEN [ok |-> FALSE, pieces |-> ps, downloading |-> dl, data |-> <<>>]
    ELSE IF ~HashMatches(dl[index], ps[index].hash)
    THEN [ok |-> FALSE,
          pieces |-> [ps EXCEPT ![index].state = "Missing"],
          downloading |-> Remove(dl, index),
          data |-> <<>>]
    ELSE [ok |-> TRUE,
          pieces |-> [ps EXCEPT ![index].state = "Complete"],
          downloading |-> Remove(dl, index),
          data |-> dl[index]]

blocks_in_piece(ps, index) ==
    IF index >= NumPieces THEN 0
    ELSE (ps[index].length + BlockLen - 1) \div BlockLen

\* get_block_info: Option<(offset, length)>.
get_block_info(ps, index, block) ==
    IF index >= NumPieces THEN None
    ELSE LET offset == block * BlockLen
         IN IF offset >= ps[index].length THEN None
            ELSE Some(<<offset, Min(BlockLen, ps[index].length - offset)>>)

complete_count(ps) == Cardinality({i \in Pieces : ps[i].state = "Complete"})

is_complete(ps) == complete_count(ps) = NumPieces

\* ------------------------------------------------------------ PiecePicker
\* Endgame starts when at most this many pieces are Missing in the picker.
ENDGAME_PIECES == 5
\* mark_complete leaves the random-first regime at this many pieces.
RANDOM_FIRST_PIECES == 4

\* PiecePicker::new(total_pieces).
PiecePicker_of(total_pieces) ==
    [piece_states       |-> [i \in 0 .. total_pieces - 1 |-> "Missing"],
     piece_availability |-> [i \in 0 .. total_pieces - 1 |-> 0],
     random_first       |-> TRUE,
     downloaded_count   |-> 0,
     endgame_mode       |-> FALSE]

PiecePicker_new == PiecePicker_of(NumPieces)

\* PiecePicker.total_pieces.
total_pieces(pk) == Cardinality(DOMAIN pk.piece_states)

mark_downloading(pk, index) ==
    IF index < NumPieces
    THEN [pk EXCEPT !.piece_states[index] = "Downloading"]
    ELSE pk

mark_complete(pk, index) ==
    IF index < NumPieces
    THEN [pk EXCEPT !.piece_states[index] = "Complete",
                    !.downloaded_count = @ + 1,
                    !.random_first =
                        IF pk.downloaded_count + 1 >= RANDOM_FIRST_PIECES
                        THEN FALSE ELSE @]
    ELSE pk

mark_missing(pk, index) ==
    IF index < total_pieces(pk)
    THEN [pk EXCEPT !.piece_states[index] = "Missing"]
    ELSE pk

\* PieceManager::get_piece_state: Option<PieceState>.
get_piece_state(ps, index) ==
    IF index \in DOMAIN ps THEN Some(ps[index].state) ELSE None

\* has_piece_in_bitfield reading the bits from the least significant one.
Mut_has_piece_in_bitfield(bitfield, index) ==
    LET byte_index == index \div 8
        bit_index == index % 8
    IN IF byte_index < Len(bitfield)
       THEN (bitfield[byte_index + 1] \div Pow2(bit_index)) % 2 = 1
       ELSE FALSE

\* picker.rs 160-169: has_piece_in_bitfield.
has_piece_in_bitfield(bitfield, index) ==
    LET byte_index == index \div 8
        bit_index == 7 - (index % 8)
    IN IF byte_index < Len(bitfield)
       THEN (bitfield[byte_index + 1] \div Pow2(bit_index)) % 2 = 1
       ELSE FALSE

\* picker.rs 31-37: update_peer_pieces.
update_peer_pieces(pk, bitfield) ==
    [pk EXCEPT !.piece_availability =
        [i \in 0 .. total_pieces(pk) - 1 |->
            IF has_piece_in_bitfield(bitfield, i) THEN @[i] + 1 ELSE @[i]]]

\* pick_piece, first part: the endgame switch.
EnterEndgame(pk) ==
    LET missing_count ==
            Cardinality({i \in DOMAIN pk.piece_states :
                            pk.piece_states[i] = "Missing"})
    IN IF ~pk.endgame_mode /\ missing_count > 0 /\ missing_count <= ENDGAME_PIECES
       THEN [pk EXCEPT !.endgame_mode = TRUE]
       ELSE pk

\* available_pieces that skips only the pieces Complete in the catalog.
Mut_available_pieces(pk, ps) ==
    {i \in 0 .. total_pieces(pk) - 1 :
        /\ get_piece_state(ps, i) \in {Some("Missing"), Some("Downloading")}
        /\ ~(~pk.endgame_mode /\ pk.piece_states[i] = "Downloading")}

\* pick_piece, second part: available_pieces, for the picker after the switch.
available_pieces(pk, ps) ==
    {i \in 0 .. total_pieces(pk) - 1 :
        /\ get_piece_state(ps, i) = Some("Missing")
        /\ ~(~pk.endgame_mode /\ pk.piece_states[i] = "Downloading")}

\* The first piece of `avail` (in index order) with the least availability:
\* Iterator::min_by_key returns the first minimum.
RarestFirst(pk, avail) ==
    CHOOSE i \in avail :
        \A j \in avail :
            \/ pk.piece_availability[i] < pk.piece_availability[j]
            \/ pk.piece_availability[i] = pk.piece_availability[j] /\ i <= j

\* The pieces pick_piece may select: any available one under random_first.
Selectable(pk, avail) ==
    IF pk.random_first THEN avail ELSE {RarestFirst(pk, avail)}

\* pick_piece that never marks the piece it returns.
Mut_AfterSelect(pk, selected) == pk

\* pick_piece, last part: the picker after `selected` was chosen.
AfterSelect(pk, selected) ==
    IF ~pk.endgame_mode
    THEN [pk EXCEPT !.piece_states[selected] = "Downloading"]
    ELSE pk

\* --------------------------------------------------------- PeerConnection
PeerState_default ==
    [am_choking |-> TRUE, am_interested |-> FALSE,
     peer_choking |-> TRUE, peer_interested |-> FALSE]

\* Frames.  A Piece frame carries piece_index, offset and data; a Request
\* frame the block (piece_index, offset, length).
KeepAlive == [id |-> "KeepAlive"]
Choke == [id |-> "Choke"]
Unchoke == [id |-> "Unchoke"]
Interested == [id |-> "Interested"]
NotInterested == [id |-> "NotInterested"]
Have(i) == [id |-> "Have", piece_index |-> i]
Bitfield(b) == [id |-> "Bitfield", bitfield |-> b]
Piece(i, o, d) == [id |-> "Piece", piece_index |-> i, offset |-> o, data |-> d]

\* send_message's effect on the session state.
OnSend(c, id) ==
    CASE id = "Choke"         -> [c EXCEPT !.state.am_choking = TRUE]
      [] id = "Unchoke"       -> [c EXCEPT !.state.am_choking = FALSE]
      [] id = "Interested"    -> [c EXCEPT !.state.am_interested = TRUE]
      [] id = "NotInterested" -> [c EXCEPT !.state.am_interested = FALSE]
      [] OTHER                -> c

\* handle_message with the Choke and Unchoke arms exchanged.
Mut_handle_message(c, m) ==
    CASE m.id = "Choke"         -> [c EXCEPT !.state.peer_choking = FALSE]
      [] m.id = "Unchoke"       -> [c EXCEPT !.state.peer_choking = TRUE]
      [] m.id = "Interested"    -> [c EXCEPT !.state.peer_interested = TRUE]
      [] m.id = "NotInterested" -> [c EXCEPT !.state.peer_interested = FALSE]
      [] m.id = "Bitfield"      -> [c EXCEPT !.bitfield = Some(m.bitfield)]
      [] OTHER                  -> c

\* handle_message: the session after receiving `m`.
handle_message(c, m) ==
    CASE m.id = "Choke"         -> [c EXCEPT !.state.peer_choking = TRUE]
      [] m.id = "Unchoke"       -> [c EXCEPT !.state.peer_choking = FALSE]
      [] m.id = "Interested"    -> [c EXCEPT !.state.peer_interested = TRUE]
      [] m.id = "NotInterested" -> [c EXCEPT !.state.peer_interested = FALSE]
      [] m.id = "Bitfield"      -> [c EXCEPT !.bitfield = Some(m.bitfield)]
      [] OTHER                  -> c

\* has_piece: bit (7 - index % 8) of byte index / 8 of the recorded bitfield.
has_piece(c, index) ==
    IF c.bitfield # None
    THEN LET bitfield == c.bitfield[1]
             byte_index == index \div 8
             bit_index == 7 - (index % 8)
         IN IF byte_index < Len(bitfield)
            THEN (bitfield[byte_index + 1] \div Pow2(bit_index)) % 2 = 1
            ELSE FALSE
    ELSE FALSE

\* The bitfield of a peer that has exactly the pieces of `S`.
RECURSIVE BitsOf(_)
BitsOf(S) ==
    IF S = {} THEN 0
    ELSE LET i == CHOOSE x \in S : TRUE
         IN Pow2(7 - (i % 8)) + BitsOf(S \ {i})

BitfieldOf(S) ==
    [b \in 1 .. ((NumPieces + 7) \div 8) |->
        BitsOf({i \in S : i \div 8 = b - 1})]

\* --------------------------------------------------------- StorageManager
\* StorageManager::new: the files with their cumulative global offsets.
RECURSIVE FileEntries(_, _)
FileEntries(lengths, offset) ==
    IF lengths = <<>> THEN <<>>
    ELSE <<[length |-> Head(lengths), offset |-> offset]>>
         \o FileEntries(Tail(lengths), offset + Head(lengths))

\* WriteAt without the seek: `data` goes to the start of the file.
Mut_WriteAt(bytes, at, data) ==
    [k \in 1 .. Len(bytes) |-> IF k <= Len(data) THEN data[k] ELSE bytes[k]]

\* A file's bytes with `data` written at in-file offset `at`.
WriteAt(bytes, at, data) ==
    [k \in 1 .. Len(bytes) |->
        IF k > at /\ k <= at + Len(data) THEN data[k - at] ELSE bytes[k]]

\* write_at_offset's loop from file number f on: the disk afterwards.
RECURSIVE write_at_offset(_, _, _, _, _)
write_at_offset(fs, d, f, offset, data) ==
    IF f > Len(fs) THEN d
    ELSE IF offset >= fs[f].offset + fs[f].length
    THEN write_at_offset(fs, d, f + 1, offset, data)
    ELSE IF offset < fs[f].offset THEN d
    ELSE LET file_offset == offset - fs[f].offset
             bytes_to_write == Min(Len(data), fs[f].length - file_offset)
             written == [d EXCEPT ![f] =
                            WriteAt(@, file_offset, SubSeq(data, 1, bytes_to_write))]
             rest == SubSeq(data, bytes_to_write + 1, Len(data))
         IN IF rest = <<>> THEN written
            ELSE write_at_offset(fs, written, f + 1, offset + bytes_to_write, rest)

\* write_piece with the global offset of the following piece.
Mut_write_piece(fs, d, index, data) ==
    write_at_offset(fs, d, 1, (index + 1) * PieceLength, data)

\* write_piece: the disk after piece `index` was written.
write_piece(fs, d, index, data) ==
    write_at_offset(fs, d, 1, index * PieceLength, data)

\* The byte at global offset g as stored on disk (-1: not stored).
DiskByte(fs, d, g) ==
    LET hit == {f \in 1 .. Len(fs) :
                    g >= fs[f].offset /\ g < fs[f].offset + fs[f].length}
    IN IF hit = {} THEN -1
       ELSE LET f == CHOOSE x \in hit : TRUE IN d[f][g - fs[f].offset + 1]

\* The bytes stored on disk in the global range of piece `index`.
DiskPiece(fs, d, ps, index) ==
    [k \in 1 .. ps[index].length |->
        DiskByte(fs, d, index * PieceLength + k - 1)]

\* -------------------------------------------------------------- the start
\* The torrents of the model: NumPieces pieces, the last one short or full.
TotalLengths == {(NumPieces - 1) * PieceLength + 1, NumPieces * PieceLength}

\* The file list of a torrent of `total` bytes: a first file of one byte
\* followed by a file with the rest, so that piece 0 spans both.
FileLists(total) == {<<1, total - 1>>}

\* The bitfield a session may hold when the worker loop consults it: none,
\* as PeerConnection::connect leaves it, or one that handle_message recorded
\* from a Bitfield frame (a seed has every piece; the other peer of the
\* model has piece 0 only, until it sends another Bitfield).
RecordedBitfields(k) ==
    IF k = "seed" THEN {None, Some(BitfieldOf(Pieces))}
    ELSE {None, Some(BitfieldOf({0}))}

\* No descriptor is being loaded while download() runs.
TorrentIdle ==
    /\ raw_data = <<>>
    /\ load_pc = "idle"
    /\ info_start = 0
    /\ scan_i = 0
    /\ depth = 0
    /\ hashed = None

\* No conversion is under test.
\* No task of a download runs: the locks are not looked at.
LocksIdle == locks = <<>>

CodecIdle ==
    /\ codec = "none"
    /\ codec_in = None
    /\ codec_bytes = None
    /\ codec_out = None

Init ==
    /\ LocksIdle
    /\ total_length \in TotalLengths
    /\ pieces = PieceManager_new(total_length)
    /\ downloading = <<>>
    /\ picker = PiecePicker_new
    /\ kind \in [Peers -> {"seed", "any"}]
    /\ conns \in [Peers -> [state : {PeerState_default},
                            bitfield : RecordedBitfields("seed")
                                       \cup RecordedBitfields("any")]]
    /\ \A p \in Peers : conns[p].bitfield \in RecordedBitfields(kind[p])
    /\ inbox = [p \in Peers |->
                  IF kind[p] = "seed" /\ conns[p].bitfield = None
                  THEN <<Bitfield(BitfieldOf(Pieces))>> ELSE <<>>]
    /\ pool = [i \in 1 .. NumPeers |-> i]
    /\ pc = [w \in Workers |-> "pick"]
    /\ piece_index = [w \in Workers |-> 0]
    /\ peer = [w \in Workers |-> None]
    /\ block_index = [w \in Workers |-> 0]
    /\ piece_data = [w \in Workers |-> <<>>]
    /\ result = [w \in Workers |-> "Ok"]
    /\ receive_result = [w \in Workers |-> None]
    /\ requested = [w \in Workers |-> <<>>]
    /\ \E lengths \in FileLists(total_length) :
          /\ files = FileEntries(lengths, 0)
          /\ disk = [f \in 1 .. Len(lengths) |-> [k \in 1 .. lengths[f] |-> -1]]
    /\ outcome = "running"
    /\ TorrentIdle
    /\ CodecIdle

\* ---------------------------------------------------------- the remote end
\* The bytes of block (offset, length) of piece `index`.
BlockContent(index, offset, length) ==
    [k \in 1 .. length |-> ContentByte(index * PieceLength + offset + k - 1)]

\* `data` with its first byte changed.
Corrupt(data) ==
    IF data = <<>> THEN <<>> ELSE <<1 - Head(data)>> \o Tail(data)

\* The Piece frames an arbitrary peer may answer a Request(index, offset,
\* length) with: the block; wrong bytes; fewer or more bytes than asked
\* for; the block of another piece or at another offset.
PieceReplies(index, offset, length) ==
    LET good == BlockContent(index, offset, length)
    IN {Piece(index, offset, good),
        Piece(index, offset, Corrupt(good)),
        Piece(index, offset, SubSeq(good, 1, length - 1)),
        Piece(index, offset, good \o <<0>>),
        Piece((index + 1) % NumPieces, offset, good),
        Piece(index, offset + BlockLen, good)}

\* The frames an arbitrary peer may send at any time.
AnyFrames ==
    {KeepAlive, Choke, Unchoke, Have(0), Bitfield(BitfieldOf(Pieces))}

\* What a seed sends back when it receives frame `m`: Unchoke for
\* Interested, the requested block for Request.
SeedReply(m) ==
    CASE m.id = "Interested" -> <<Unchoke>>
      [] m.id = "Request" ->
            <<Piece(m.piece_index, m.offset,
                    BlockContent(m.piece_index, m.offset, m.length))>>
      [] OTHER -> <<>>

Request(i, o, l) == [id |-> "Request", piece_index |-> i, offset |-> o, length |-> l]

\* The frames receive_message may return on peer p, given what an arbitrary
\* peer could send now (`any`): a seed's frames arrive in order.
Receivable(p, any) ==
    IF kind[p] = "seed"
    THEN (IF inbox[p] = <<>> THEN {} ELSE {Head(inbox[p])})
    ELSE any

\* The inbox of p after one frame was received.
Received(p) ==
    IF kind[p] = "seed" THEN [inbox EXCEPT ![p] = Tail(@)] ELSE inbox

\* receive_message can time out when nothing is coming: on an arbitrary
\* peer, or on a seed that has nothing left to send.
CanTimeOut(p) == kind[p] = "any" \/ inbox[p] = <<>>

\* The socket of an arbitrary peer can fail.
CanFail(p) == kind[p] = "any"

\* ------------------------------------------------------- the worker tasks
PeerOf(w) == peer[w][1]

\* conns.push(peer) without the push: the connection is dropped.
Mut_Push(conns_pool, p) == conns_pool

\* client/mod.rs 210, 233: conns.push(peer).
Push(conns_pool, p) == Append(conns_pool, p)

\* download_piece_from_peer returns Err(e): the worker goes on to return
\* the connection to the pool.
Fail(w, e) ==
    /\ result' = [result EXCEPT ![w] = e]
    /\ pc' = [pc EXCEPT ![w] = "putback"]

\* Where the request loop goes after block k of piece `index`.
AfterBlock(index, k) ==
    IF k + 1 >= blocks_in_piece(pieces, index) THEN "complete" ELSE "request"

\* client/mod.rs 183-195: pick_piece under the picker and manager locks.
PickPiece(w) ==
    /\ UNCHANGED <<torrentVars, codecVars, lockVars>>
    /\ pc[w] = "pick"
    /\ LET pk == EnterEndgame(picker)
           avail == available_pieces(pk, pieces)
       IN IF avail = {}
          THEN /\ picker' = pk
               /\ pc' = [pc EXCEPT ![w] = "done"]
               /\ UNCHANGED piece_index
          ELSE \E selected \in Selectable(pk, avail) :
                  /\ picker' = AfterSelect(pk, selected)
                  /\ piece_index' = [piece_index EXCEPT ![w] = selected]
                  /\ pc' = [pc EXCEPT ![w] = "take"]
    /\ UNCHANGED <<receive_result, requested, total_length, pieces, downloading, conns, pool, kind, inbox,
                   peer, block_index, piece_data, result, files, disk, outcome>>

\* client/mod.rs 198-207: pop a connection, then has_piece on it.
TakePeer(w) ==
    /\ UNCHANGED <<torrentVars, codecVars, lockVars>>
    /\ pc[w] = "take"
    /\ IF pool = <<>>
       THEN /\ pc' = [pc EXCEPT ![w] = "done"]
            /\ UNCHANGED <<pool, peer>>
       ELSE LET p == pool[Len(pool)]
            IN /\ pool' = SubSeq(pool, 1, Len(pool) - 1)
               /\ peer' = [peer EXCEPT ![w] = Some(p)]
               /\ pc' = [pc EXCEPT ![w] =
                            IF has_piece(conns[p], piece_index[w])
                            THEN "start" ELSE "skip"]
    /\ UNCHANGED <<receive_result, requested, total_length, pieces, downloading, picker, conns, kind, inbox,
                   piece_index, block_index, piece_data, result, files, disk,
                   outcome>>

\* client/mod.rs 208-211: the peer lacks the piece; push it back, continue.
SkipPeer(w) ==
    /\ UNCHANGED <<torrentVars, codecVars, lockVars>>
    /\ pc[w] = "skip"
    /\ pool' = Push(pool, PeerOf(w))
    /\ peer' = [peer EXCEPT ![w] = None]
    /\ piece_index' = [piece_index EXCEPT ![w] = 0]
    /\ pc' = [pc EXCEPT ![w] = "pick"]
    /\ UNCHANGED <<receive_result, requested, total_length, pieces, downloading, picker, conns, kind, inbox,
                   block_index, piece_data, result, files, disk, outcome>>

\* client/mod.rs 286-290: start_piece under the manager lock.
StartPiece(w) ==
    /\ UNCHANGED <<torrentVars, codecVars, lockVars>>
    /\ pc[w] = "start"
    /\ LET r == start_piece(pieces, downloading, piece_index[w])
       IN /\ pieces' = r.pieces
          /\ downloading' = r.downloading
          /\ IF r.ok
             THEN /\ pc' = [pc EXCEPT ![w] = "interested"]
                  /\ UNCHANGED result
             ELSE Fail(w, "PieceError")
    /\ UNCHANGED <<receive_result, requested, total_length, picker, conns, pool, kind, inbox, piece_index,
                   peer, block_index, piece_data, files, disk, outcome>>

\* client/mod.rs 292-295: send Interested unless am_interested.
SendInterested(w) ==
    /\ UNCHANGED <<torrentVars, codecVars, lockVars>>
    /\ pc[w] = "interested"
    /\ LET p == PeerOf(w)
       IN IF conns[p].state.am_interested
          THEN /\ pc' = [pc EXCEPT ![w] = "unchoke"]
               /\ UNCHANGED <<conns, inbox, result>>
          ELSE \/ /\ conns' = [conns EXCEPT ![p] = OnSend(@, "Interested")]
                  /\ inbox' = [inbox EXCEPT ![p] =
                                  IF kind[p] = "seed"
                                  THEN @ \o SeedReply(Interested) ELSE @]
                  /\ pc' = [pc EXCEPT ![w] = "unchoke"]
                  /\ UNCHANGED result
               \/ /\ CanFail(p)
                  /\ Fail(w, "IoError")
                  /\ UNCHANGED <<conns, inbox>>
    /\ UNCHANGED <<receive_result, requested, total_length, pieces, downloading, picker, pool, kind,
                   piece_index, peer, block_index, piece_data, files, disk,
                   outcome>>

\* client/mod.rs 297-330: one turn of the wait-for-unchoke loop.
WaitUnchoke(w) ==
    /\ UNCHANGED <<torrentVars, codecVars, lockVars>>
    /\ pc[w] = "unchoke"
    /\ LET p == PeerOf(w)
           any == AnyFrames \cup PieceReplies(piece_index[w], 0, BlockLen)
       IN \/ \E m \in Receivable(p, any) :
                /\ conns' = [conns EXCEPT ![p] = handle_message(@, m)]
                /\ inbox' = Received(p)
                /\ receive_result' = [receive_result EXCEPT ![w] = Some(m)]
                /\ IF m.id = "Unchoke"
                   THEN /\ pc' = [pc EXCEPT ![w] =
                                    IF blocks_in_piece(pieces, piece_index[w]) = 0
                                    THEN "complete" ELSE "request"]
                        /\ UNCHANGED result
                   ELSE IF m.id = "Choke"
                   THEN Fail(w, "PeerError")
                   ELSE UNCHANGED <<pc, result>>
          \/ /\ CanTimeOut(p)
             /\ Fail(w, "PeerError")
             /\ receive_result' = [receive_result EXCEPT ![w] = None]
             /\ UNCHANGED <<conns, inbox>>
          \/ /\ CanFail(p)
             /\ Fail(w, "IoError")
             /\ receive_result' = [receive_result EXCEPT ![w] = None]
             /\ UNCHANGED <<conns, inbox>>
    /\ block_index' = [block_index EXCEPT ![w] = 0]
    /\ UNCHANGED <<requested, total_length, pieces, downloading, picker, pool, kind,
                   piece_index, peer, piece_data, files, disk, outcome>>

\* A block loop that asks for block 0 in every iteration.
Mut_BlockOf(index, k) == 0

\* client/mod.rs 338: the block the loop's iteration k asks for.
BlockOf(index, k) == k

\* client/mod.rs 338-346: get_block_info, then send the Request.
SendRequest(w) ==
    /\ UNCHANGED <<torrentVars, codecVars, lockVars>>
    /\ pc[w] = "request"
    /\ LET p == PeerOf(w)
           info == get_block_info(pieces, piece_index[w],
                                  BlockOf(piece_index[w], block_index[w]))
       IN IF info = None
          THEN /\ Fail(w, "PieceError")
               /\ UNCHANGED <<inbox, requested>>
          ELSE LET block == Request(piece_index[w], info[1][1], info[1][2])
               IN \/ /\ inbox' = [inbox EXCEPT ![p] =
                                     IF kind[p] = "seed"
                                     THEN @ \o SeedReply(block) ELSE @]
                     /\ requested' = [requested EXCEPT ![w] = Append(@, block)]
                     /\ pc' = [pc EXCEPT ![w] = "recv"]
                     /\ UNCHANGED result
                  \/ /\ CanFail(p)
                     /\ Fail(w, "IoError")
                     /\ UNCHANGED <<inbox, requested>>
    /\ receive_result' = [receive_result EXCEPT ![w] = None]
    /\ UNCHANGED <<total_length, pieces, downloading, picker, conns, pool, kind,
                   piece_index, peer, block_index, piece_data, files, disk,
                   outcome>>

\* client/mod.rs 348-382: receive one frame for the requested block.
ReceiveBlock(w) ==
    /\ UNCHANGED <<torrentVars, codecVars, lockVars>>
    /\ pc[w] = "recv"
    /\ LET p == PeerOf(w)
           index == piece_index[w]
           info == get_block_info(pieces, index, block_index[w])
           offset == info[1][1]
           length == info[1][2]
           any == AnyFrames \cup PieceReplies(index, offset, length)
       IN \/ \E m \in Receivable(p, any) :
                /\ conns' = [conns EXCEPT ![p] = handle_message(@, m)]
                /\ inbox' = Received(p)
                /\ receive_result' = [receive_result EXCEPT ![w] = Some(m)]
                /\ IF m.id # "Piece"
                   THEN /\ Fail(w, "PeerError")
                        /\ UNCHANGED <<downloading, block_index>>
                   ELSE IF m.piece_index = index /\ m.offset = offset
                   THEN LET r == add_block(downloading, index, offset, m.data)
                        IN /\ downloading' = r.downloading
                           /\ IF r.ok
                              THEN /\ pc' = [pc EXCEPT ![w] =
                                               AfterBlock(index, block_index[w])]
                                   /\ block_index' =
                                        [block_index EXCEPT ![w] = @ + 1]
                                   /\ UNCHANGED result
                              ELSE /\ Fail(w, "PieceError")
                                   /\ UNCHANGED block_index
                   ELSE /\ pc' = [pc EXCEPT ![w] =
                                    AfterBlock(index, block_index[w])]
                        /\ block_index' = [block_index EXCEPT ![w] = @ + 1]
                        /\ UNCHANGED <<downloading, result>>
          \/ /\ CanTimeOut(p)
             /\ Fail(w, "PeerError")
             /\ receive_result' = [receive_result EXCEPT ![w] = None]
             /\ UNCHANGED <<conns, inbox, downloading, block_index>>
          \/ /\ CanFail(p)
             /\ Fail(w, "IoError")
             /\ receive_result' = [receive_result EXCEPT ![w] = None]
             /\ UNCHANGED <<conns, inbox, downloading, block_index>>
    /\ UNCHANGED <<requested, total_length, pieces, picker, pool, kind, piece_index, peer,
                   piece_data, files, disk, outcome>>

\* client/mod.rs 384-388: complete_piece under the manager lock.
CompletePiece(w) ==
    /\ UNCHANGED <<torrentVars, codecVars, lockVars>>
    /\ pc[w] = "complete"
    /\ LET r == complete_piece(pieces, downloading, piece_index[w])
       IN /\ pieces' = r.pieces
          /\ downloading' = r.downloading
          /\ IF r.ok
             THEN /\ piece_data' = [piece_data EXCEPT ![w] = r.data]
                  /\ pc' = [pc EXCEPT ![w] = "write"]
                  /\ UNCHANGED result
             ELSE /\ Fail(w, "PieceError")
                  /\ UNCHANGED piece_data
    /\ UNCHANGED <<receive_result, requested, total_length, picker, conns, pool, kind, inbox, piece_index,
                   peer, block_index, files, disk, outcome>>

\* client/mod.rs 390-393: write the returned bytes to storage.
WritePiece(w) ==
    /\ UNCHANGED <<torrentVars, codecVars, lockVars>>
    /\ pc[w] = "write"
    /\ \/ /\ disk' = write_piece(files, disk, piece_index[w], piece_data[w])
          /\ result' = [result EXCEPT ![w] = "Ok"]
          /\ pc' = [pc EXCEPT ![w] = "putback"]
       \/ /\ Fail(w, "IoError")
          /\ UNCHANGED disk
    /\ UNCHANGED <<receive_result, requested, total_length, pieces, downloading, picker, conns, pool, kind,
                   inbox, piece_index, peer, block_index, piece_data, files,
                   outcome>>

\* client/mod.rs 230-239: return the connection to the pool; on Ok the loop
\* starts over.
ReturnPeer(w) ==
    /\ UNCHANGED <<torrentVars, codecVars, lockVars>>
    /\ pc[w] = "putback"
    /\ pool' = Push(pool, PeerOf(w))
    /\ peer' = [peer EXCEPT ![w] = None]
    /\ block_index' = [block_index EXCEPT ![w] = 0]
    /\ piece_data' = [piece_data EXCEPT ![w] = <<>>]
    /\ receive_result' = [receive_result EXCEPT ![w] = None]
    /\ requested' = [requested EXCEPT ![w] = <<>>]
    /\ IF result[w] = "Ok"
       THEN /\ pc' = [pc EXCEPT ![w] = "pick"]
            /\ piece_index' = [piece_index EXCEPT ![w] = 0]
       ELSE /\ pc' = [pc EXCEPT ![w] = "result"]
            /\ UNCHANGED piece_index
    /\ UNCHANGED <<total_length, pieces, downloading, picker, conns, kind, inbox,
                   result, files, disk, outcome>>

\* client/mod.rs 240-245: on Err, mark_missing under the picker lock.
HandleResult(w) ==
    /\ UNCHANGED <<torrentVars, codecVars, lockVars>>
    /\ pc[w] = "result"
    /\ picker' = mark_missing(picker, piece_index[w])
    /\ result' = [result EXCEPT ![w] = "Ok"]
    /\ piece_index' = [piece_index EXCEPT ![w] = 0]
    /\ pc' = [pc EXCEPT ![w] = "pick"]
    /\ UNCHANGED <<receive_result, requested, total_length, pieces, downloading, conns, pool, kind, inbox,
                   peer, block_index, piece_data, files, disk, outcome>>

\* client/mod.rs 253-276: all tasks joined; the completion check; Ok(()).
FinishDownload ==
    /\ UNCHANGED <<torrentVars, codecVars, lockVars>>
    /\ outcome = "running"
    /\ \A w \in Workers : pc[w] = "done"
    /\ outcome' = IF is_complete(pieces) THEN "Ok" ELSE "Ok"
    /\ UNCHANGED <<receive_result, requested, total_length, pieces, downloading, picker, conns, pool, kind,
                   inbox, pc, piece_index, peer, block_index, piece_data, result,
                   files, disk>>

WorkerStep(w) ==
    \/ PickPiece(w)
    \/ TakePeer(w)
    \/ SkipPeer(w)
    \/ StartPiece(w)
    \/ SendInterested(w)
    \/ WaitUnchoke(w)
    \/ SendRequest(w)
    \/ ReceiveBlock(w)
    \/ CompletePiece(w)
    \/ WritePiece(w)
    \/ ReturnPeer(w)
    \/ HandleResult(w)

Next ==
    \/ \E w \in Workers : WorkerStep(w)
    \/ FinishDownload

Spec == Init /\ [][Next]_vars

\* The worker tasks are tokio tasks: a task that can take a step is
\* eventually scheduled.
FairSpec == Spec /\ \A w \in Workers : WF_vars(WorkerStep(w)) /\ WF_vars(FinishDownload)

\* ------------------------------------------------------------------ claims
Unwritten(n) == [k \in 1 .. n |-> -1]

\* Piece i was written to storage in full.
Written(i) == \A k \in 1 .. pieces[i].length : DiskPiece(files, disk, pieces, i)[k] # -1

\* C1: a piece becomes Complete in the catalog only in a step in which its
\* assembly buffer, of the piece's full length, hashes to the piece's
\* expected hash.
C1_CompleteOnlyVerified ==
    [][\A i \in Pieces :
         (pieces[i].state # "Complete" /\ pieces'[i].state = "Complete") =>
            /\ i \in DOMAIN downloading
            /\ Len(downloading[i]) = pieces[i].length
            /\ Sha1(downloading[i]) = pieces[i].hash
            /\ \E w \in Workers : pc[w] = "complete" /\ piece_index[w] = i]_vars

\* C1 witness: a piece is Complete after a buffer passed verification.
C1_Witness ==
    \E w \in Workers :
        /\ pc[w] = "write"
        /\ pieces[piece_index[w]].state = "Complete"

C7_Transitions ==
    [][/\ \A i \in Pieces :
            pieces'[i].state # pieces[i].state =>
              \/ /\ pieces[i].state = "Missing"
                 /\ pieces'[i].state = "Downloading"
                 /\ \E w \in Workers : pc[w] = "start" /\ piece_index[w] = i
              \/ /\ pieces[i].state = "Downloading"
                 /\ pieces'[i].state = "Missing"
                 /\ \E w \in Workers : pc[w] = "complete" /\ piece_index[w] = i
                 /\ Sha1(downloading[i]) # pieces[i].hash
              \/ /\ pieces[i].state = "Downloading"
                 /\ pieces'[i].state = "Complete"
                 /\ \E w \in Workers : pc[w] = "complete" /\ piece_index[w] = i
       /\ complete_count(pieces') >= complete_count(pieces)]_vars

\* C7 witness: one piece is Complete while a failed verification has put
\* another attempt's piece back to Missing.
C7_Witness ==
    /\ \E i \in Pieces : pieces[i].state = "Complete"
    /\ \E w \in Workers :
          /\ pc[w] = "putback"
          /\ result[w] = "PieceError"
          /\ pieces[piece_index[w]].state = "Missing"

\* C8: a worker is sending a Request, or waiting for its reply, only while
\* the session's peer_choking is false.
C8_RequestOnlyUnchoked ==
    \A w \in Workers :
        pc[w] \in {"request", "recv"} => ~conns[PeerOf(w)].state.peer_choking

\* C8 witness: a Request for the second block of a piece has been sent.
C8_Witness ==
    \E w \in Workers : pc[w] = "recv" /\ block_index[w] = 1

C10_OnlyVerifiedWritten ==
    /\ \A w \in Workers :
          pc[w] = "write" =>
              /\ Sha1(piece_data[w]) = pieces[piece_index[w]].hash
              /\ pieces[piece_index[w]].state = "Complete"
    /\ \A i \in Pieces :
          LET stored == DiskPiece(files, disk, pieces, i)
          IN stored = Unwritten(pieces[i].length)
             \/ Sha1(stored) = pieces[i].hash

\* C10 witness: a piece that spans both files is in storage.
C10_Witness == Written(0) /\ ~Written(1)

\* Every session is as PeerConnection::connect returns it: no bitfield
\* recorded yet.
AsConnected == \A p \in Peers : conns[p].bitfield = None

\* C3: with a seed among the connected peers (it has every
\* piece, its Bitfield frame follows the handshake, it unchokes on
\* Interested and serves every Request), every piece is eventually Complete.
C3_SeedCompletesAll ==
    (AsConnected /\ \E p \in Peers : kind[p] = "seed")
        => <>(\A i \in Pieces : pieces[i].state = "Complete")

\* C5: every run ends: from the sessions as connect leaves them, every
\* worker task eventually leaves its pick/download loop.
C5_EveryRunEnds == AsConnected => <>(\A w \in Workers : pc[w] = "done")

\* ------------------------------------------------------ bencode, metainfo
\* Bytes of a torrent descriptor are one-character strings; positions are
\* zero-based as in the source, so the byte at `pos` is data[pos + 1].
B_announce == <<"a", "n", "n", "o", "u", "n", "c", "e">>
B_comment == <<"c", "o", "m", "m", "e", "n", "t">>
B_info == <<"i", "n", "f", "o">>
B_name == <<"n", "a", "m", "e">>
B_piece_length == <<"p", "i", "e", "c", "e", " ", "l", "e", "n", "g", "t", "h">>
B_pieces == <<"p", "i", "e", "c", "e", "s">>
B_length == <<"l", "e", "n", "g", "t", "h">>
B_files == <<"f", "i", "l", "e", "s">>
B_path == <<"p", "a", "t", "h">>

DigitChars == <<"0", "1", "2", "3", "4", "5", "6", "7", "8", "9">>
IsDigit(c) == \E k \in 1 .. 10 : DigitChars[k] = c
DigitValue(c) == (CHOOSE k \in 1 .. 10 : DigitChars[k] = c) - 1

RECURSIVE DigitsValue(_, _)
DigitsValue(str, acc) ==
    IF str = <<>> THEN acc
    ELSE DigitsValue(Tail(str), acc * 10 + DigitValue(Head(str)))

AllDigits(str) == str # <<>> /\ \A k \in 1 .. Len(str) : IsDigit(str[k])

\* str::parse::<i64>: an optional '+' or '-', then one or more digits.
ParseI64(str) ==
    IF str # <<>> /\ Head(str) = "-" /\ AllDigits(Tail(str))
    THEN [ok |-> TRUE, v |-> 0 - DigitsValue(Tail(str), 0)]
    ELSE IF str # <<>> /\ Head(str) = "+" /\ AllDigits(Tail(str))
    THEN [ok |-> TRUE, v |-> DigitsValue(Tail(str), 0)]
    ELSE IF AllDigits(str)
    THEN [ok |-> TRUE, v |-> DigitsValue(str, 0)]
    ELSE [ok |-> FALSE, v |-> 0]

\* str::parse::<usize>: an optional '+', then one or more digits.
ParseUsize(str) ==
    IF str # <<>> /\ Head(str) = "+" /\ AllDigits(Tail(str))
    THEN [ok |-> TRUE, v |-> DigitsValue(Tail(str), 0)]
    ELSE IF AllDigits(str)
    THEN [ok |-> TRUE, v |-> DigitsValue(str, 0)]
    ELSE [ok |-> FALSE, v |-> 0]

\* The first position from `pos` on that holds byte c, or Len(data).
RECURSIVE FindByte(_, _, _)
FindByte(data, pos, c) ==
    IF pos < Len(data) /\ data[pos + 1] # c
    THEN FindByte(data, pos + 1, c) ELSE pos

\* BencodeValue's variants, and BTreeMap::new().
BInteger(n) == [t |-> "int", i |-> n]
BString(str) == [t |-> "str", s |-> str]
BListOf(list) == [t |-> "list", l |-> list]
BDictOf(dict) == [t |-> "dict", d |-> dict]
EmptyDict == [key \in {} |-> None]

\* A decoding result: the value and the position after it.
DecodeErr == [ok |-> FALSE, value |-> [t |-> "none"], pos |-> 0]
DecodeOk(value, pos) == [ok |-> TRUE, value |-> value, pos |-> pos]

decode_integer(data, pos) ==
    LET start == pos + 1
        end == FindByte(data, start, "e")
    IN IF end >= Len(data) THEN DecodeErr
       ELSE LET num == ParseI64(SubSeq(data, start + 1, end))
            IN IF num.ok
               THEN DecodeOk(BInteger(num.v), end + 1)
               ELSE DecodeErr

decode_string(data, pos) ==
    LET colon == FindByte(data, pos, ":")
    IN IF colon >= Len(data) THEN DecodeErr
       ELSE LET len == ParseUsize(SubSeq(data, pos + 1, colon))
                from == colon + 1
            IN IF ~len.ok THEN DecodeErr
               ELSE IF from + len.v > Len(data) THEN DecodeErr
               ELSE DecodeOk(BString(SubSeq(data, from + 1, from + len.v)),
                             from + len.v)

RECURSIVE decode_value(_, _)
RECURSIVE decode_list_loop(_, _, _)
RECURSIVE decode_dict_loop(_, _, _)

\* decode_list's loop, with the items decoded so far.
decode_list_loop(data, pos, list) ==
    IF pos < Len(data) /\ data[pos + 1] # "e"
    THEN LET r == decode_value(data, pos)
         IN IF r.ok THEN decode_list_loop(data, r.pos, Append(list, r.value))
            ELSE DecodeErr
    ELSE IF pos >= Len(data) THEN DecodeErr
    ELSE DecodeOk(BListOf(list), pos + 1)

\* decode_dict's loop, with the BTreeMap built so far.
decode_dict_loop(data, pos, dict) ==
    IF pos < Len(data) /\ data[pos + 1] # "e"
    THEN LET key == decode_string(data, pos)
         IN IF ~key.ok THEN DecodeErr
            ELSE LET r == decode_value(data, key.pos)
                 IN IF r.ok
                    THEN decode_dict_loop(data, r.pos,
                                          Insert(dict, key.value.s, r.value))
                    ELSE DecodeErr
    ELSE IF pos >= Len(data) THEN DecodeErr
    ELSE DecodeOk(BDictOf(dict), pos + 1)

decode_value(data, pos) ==
    IF pos >= Len(data) THEN DecodeErr
    ELSE LET c == data[pos + 1]
         IN IF c = "i" THEN decode_integer(data, pos)
            ELSE IF c = "l" THEN decode_list_loop(data, pos + 1, <<>>)
            ELSE IF c = "d" THEN decode_dict_loop(data, pos + 1, EmptyDict)
            ELSE IF IsDigit(c) THEN decode_string(data, pos)
            ELSE DecodeErr

decode(data) == decode_value(data, 0)

\* dict.get(key).and_then(as ...): the entry is there and of type t.
HasTyped(dict, key, t) == key \in DOMAIN dict /\ dict[key].t = t

\* One entry of the `files` list is a dict with a length and a path of
\* strings.
FileEntryOk(file) ==
    /\ file.t = "dict"
    /\ HasTyped(file.d, B_length, "int")
    /\ HasTyped(file.d, B_path, "list")
    /\ \A k \in 1 .. Len(file.d[B_path].l) : file.d[B_path].l[k].t = "str"

\* TorrentInfo::from_bencode returns Ok.
TorrentInfo_from_bencode(info) ==
    /\ info.t = "dict"
    /\ HasTyped(info.d, B_name, "str")
    /\ HasTyped(info.d, B_piece_length, "int")
    /\ HasTyped(info.d, B_pieces, "str")
    /\ Len(info.d[B_pieces].s) % 20 = 0
    /\ IF B_length \in DOMAIN info.d
       THEN info.d[B_length].t = "int"
       ELSE IF B_files \in DOMAIN info.d
       THEN /\ info.d[B_files].t = "list"
            /\ \A k \in 1 .. Len(info.d[B_files].l) :
                  FileEntryOk(info.d[B_files].l[k])
       ELSE FALSE

\* Metainfo::from_bencode gets as far as calculate_info_hash.
Metainfo_from_bencode(value) ==
    /\ value.t = "dict"
    /\ HasTyped(value.d, B_announce, "str")
    /\ B_info \in DOMAIN value.d
    /\ TorrentInfo_from_bencode(value.d[B_info])

\* The span [begin, end) of the value that decode_dict stores under key
\* "info" of the top-level dictionary: the loop of decode_dict, keeping the
\* positions of the value instead of the value.
RECURSIVE InfoSpanLoop(_, _, _)
InfoSpanLoop(data, pos, span) ==
    IF pos < Len(data) /\ data[pos + 1] # "e"
    THEN LET key == decode_string(data, pos)
             r == decode_value(data, key.pos)
         IN InfoSpanLoop(data, r.pos,
                         IF key.value.s = B_info THEN <<key.pos, r.pos>> ELSE span)
    ELSE span

\* The bytes of the info value as they appear in an accepted descriptor.
InfoSpan(data) ==
    LET span == InfoSpanLoop(data, 1, <<0, 0>>)
    IN SubSeq(data, span[1] + 1, span[2])

\* The position of the first window of `data` equal to `key`, as
\* windows(..).position(..): Option<usize>.
RECURSIVE WindowPosition(_, _, _)
WindowPosition(data, key, pos) ==
    IF pos + Len(key) > Len(data) THEN None
    ELSE IF SubSeq(data, pos + 1, pos + Len(key)) = key THEN Some(pos)
    ELSE WindowPosition(data, key, pos + 1)

\* b"4:info"
INFO_KEY == <<"4", ":">> \o B_info

\* ------------------------------------------------------ torrent descriptors
\* The length of one SHA-1 digest.
HASH_LEN == 20

\* The decimal digits of n, for n up to 99.
Dec(n) ==
    IF n < 10 THEN <<DigitChars[n + 1]>>
    ELSE <<DigitChars[(n \div 10) + 1], DigitChars[(n % 10) + 1]>>

\* The encodings that encode_into writes.
BStr(str) == Dec(Len(str)) \o <<":">> \o str
BInt(n) == <<"i">> \o Dec(n) \o <<"e">>
BList(items) == <<"l">> \o items \o <<"e">>
BDict(entries) == <<"d">> \o entries \o <<"e">>

\* One SHA-1 digest in `pieces`.
PieceHashBytes == [k \in 1 .. HASH_LEN |-> "x"]

\* File names and comments of the descriptors.
Names == {<<"a">>, <<"e", "d">>, <<"d", "d", "d">>}
Comments == {None, Some(<<"o", "k">>), Some(INFO_KEY \o <<"d", "e">>),
             Some(INFO_KEY)}

\* The info dictionary of a single-file and of a multi-file torrent, keys in
\* sorted order.
SingleFileInfo(name) ==
    BDict(BStr(B_length) \o BInt(1)
          \o BStr(B_name) \o BStr(name)
          \o BStr(B_piece_length) \o BInt(1)
          \o BStr(B_pieces) \o BStr(PieceHashBytes))

MultiFileInfo(name) ==
    BDict(BStr(B_files)
            \o BList(BDict(BStr(B_length) \o BInt(1)
                           \o BStr(B_path) \o BList(BStr(<<"a">>))))
          \o BStr(B_name) \o BStr(name)
          \o BStr(B_piece_length) \o BInt(1)
          \o BStr(B_pieces) \o BStr(PieceHashBytes))

\* An info dictionary whose bytes hold exactly one 'd' and, as its last
\* byte, one 'e': TorrentInfo::from_bencode refuses it.
BareInfo == BDict(BStr(<<"k">>) \o BStr(<<"v">>))

\* A single-file info dictionary with one more entry, whose key holds as
\* many 'd' bytes as the other entries hold unmatched 'e' bytes.
BalancedInfo ==
    BDict(BStr(<<"d", "d", "d", "d", "d", "d", "d">>) \o BStr(<<>>)
          \o BStr(B_length) \o BInt(1)
          \o BStr(B_name) \o BStr(<<"a">>)
          \o BStr(B_piece_length) \o BInt(1)
          \o BStr(B_pieces) \o BStr(PieceHashBytes))

\* A multi-file info dictionary whose one file has the given path.
PathInfo(path_list) ==
    BDict(BStr(B_files)
            \o BList(BDict(BStr(B_length) \o BInt(1)
                           \o BStr(B_path) \o BList(path_list)))
          \o BStr(B_name) \o BStr(<<"a">>)
          \o BStr(B_piece_length) \o BInt(1)
          \o BStr(B_pieces) \o BStr(PieceHashBytes))

\* The encoded path lists: no component; "..", "a"; "/a"; "b", "a".
PathLists ==
    {<<>>,
     BStr(<<".", ".">>) \o BStr(<<"a">>),
     BStr(<<"/", "a">>),
     BStr(<<"b">>) \o BStr(<<"a">>)}

\* `count` digests, one after the other.
RECURSIVE PiecesBlob(_)
PiecesBlob(count) ==
    IF count = 0 THEN <<>> ELSE PieceHashBytes \o PiecesBlob(count - 1)

\* A single-file info dictionary of the given length, piece length and
\* number of pieces.
SizedInfo(length, piece_length, count) ==
    BDict(BStr(B_length) \o BInt(length)
          \o BStr(B_name) \o BStr(<<"a">>)
          \o BStr(B_piece_length) \o BInt(piece_length)
          \o BStr(B_pieces) \o BStr(PiecesBlob(count)))

\* <<length, piece length, number of pieces>>: sizes that fit together (the
\* last piece short, the last piece full) and sizes that do not (too few
\* pieces, too many, no piece, no byte, piece length 0).
Sizes ==
    {<<3, 2, 2>>, <<4, 2, 2>>,
     <<5, 2, 2>>, <<2, 2, 2>>, <<3, 2, 0>>, <<0, 2, 1>>, <<3, 0, 2>>}

Infos ==
    {SingleFileInfo(name) : name \in Names}
    \cup {MultiFileInfo(name) : name \in Names}
    \cup {BareInfo, BalancedInfo}
    \cup {PathInfo(path_list) : path_list \in PathLists}
    \cup {SizedInfo(size[1], size[2], size[3]) : size \in Sizes}

\* A descriptor: announce, an optional comment, info.
Descriptor(comment, info) ==
    BDict(BStr(B_announce) \o BStr(<<"u">>)
          \o (IF comment = None THEN <<>>
              ELSE BStr(B_comment) \o BStr(comment[1]))
          \o BStr(B_info) \o info)

\* The files parse_torrent is given: descriptors, and one cut short.
Descriptors ==
    {Descriptor(comment, info) : comment \in Comments, info \in Infos}
    \cup {SubSeq(Descriptor(None, BareInfo), 1, 20)}

\* --------------------------------------------------------- parse_torrent
\* The bytes after info_start, as extract_info_dict gets them.
InfoData == SubSeq(raw_data, info_start + 1, Len(raw_data))

\* torrent/mod.rs 19-22 and metainfo.rs 145-179: decode, then the fields.
ParseTorrent ==
    /\ UNCHANGED <<downloadVars, codecVars, lockVars>>
    /\ load_pc = "parse"
    /\ LET r == decode(raw_data)
       IN load_pc' = IF r.ok /\ Metainfo_from_bencode(r.value)
                     THEN "hash" ELSE "Err"
    /\ UNCHANGED <<raw_data, info_start, scan_i, depth, hashed>>

\* metainfo.rs 207-218 and 231-236: find the first "4:info", then check the
\* byte after it.
FindInfoKey ==
    /\ UNCHANGED <<downloadVars, codecVars, lockVars>>
    /\ load_pc = "hash"
    /\ LET position == WindowPosition(raw_data, INFO_KEY, 0)
       IN IF position = None
          THEN /\ load_pc' = "Err"
               /\ UNCHANGED info_start
          ELSE LET start == position[1] + Len(INFO_KEY)
               IN /\ info_start' = start
                  /\ load_pc' = IF start >= Len(raw_data)
                                   \/ raw_data[start + 1] # "d"
                                THEN "Err" ELSE "scan"
    /\ UNCHANGED <<raw_data, scan_i, depth, hashed>>

\* metainfo.rs 238-261 and 220-227: one turn of extract_info_dict's loop; at
\* the 'e' that brings depth to 0 the loop breaks and data[..pos] is hashed;
\* past the last byte pos is still 0 and the load fails.
ScanByte ==
    /\ UNCHANGED <<downloadVars, codecVars, lockVars>>
    /\ load_pc = "scan"
    /\ IF scan_i >= Len(InfoData)
       THEN /\ load_pc' = "Err"
            /\ UNCHANGED <<scan_i, depth, hashed>>
       ELSE LET byte == InfoData[scan_i + 1]
            IN IF byte \in {"d", "l"}
               THEN /\ depth' = depth + 1
                    /\ scan_i' = scan_i + 1
                    /\ UNCHANGED <<load_pc, hashed>>
               ELSE IF byte = "e" /\ depth - 1 = 0
               THEN /\ depth' = depth - 1
                    /\ hashed' = Some(SubSeq(InfoData, 1, scan_i + 1))
                    /\ load_pc' = "Ok"
                    /\ UNCHANGED scan_i
               ELSE IF byte = "e"
               THEN /\ depth' = depth - 1
                    /\ scan_i' = scan_i + 1
                    /\ UNCHANGED <<load_pc, hashed>>
               ELSE /\ scan_i' = scan_i + 1
                    /\ UNCHANGED <<load_pc, depth, hashed>>
    /\ UNCHANGED <<raw_data, info_start>>

\* download() has not been called while the descriptor is loaded.
NotDownloading ==
    /\ total_length = 0
    /\ pieces = <<>>
    /\ downloading = <<>>
    /\ picker = <<>>
    /\ conns = <<>>
    /\ pool = <<>>
    /\ kind = <<>>
    /\ inbox = <<>>
    /\ pc = <<>>
    /\ piece_index = <<>>
    /\ peer = <<>>
    /\ block_index = <<>>
    /\ piece_data = <<>>
    /\ result = <<>>
    /\ receive_result = <<>>
    /\ requested = <<>>
    /\ files = <<>>
    /\ disk = <<>>
    /\ outcome = "running"

InitInfoHash ==
    /\ LocksIdle
    /\ NotDownloading
    /\ CodecIdle
    /\ raw_data \in Descriptors
    /\ load_pc = "parse"
    /\ info_start = 0
    /\ scan_i = 0
    /\ depth = 0
    /\ hashed = None

NextInfoHash ==
    \/ ParseTorrent
    \/ FindInfoKey
    \/ ScanByte

SpecInfoHash == InitInfoHash /\ [][NextInfoHash]_vars

\* C6: whenever parse_torrent returns Ok, the bytes that were hashed into
\* info_hash are exactly the bytes of the value stored under the top-level
\* key "info", as the bencode decoder delimits it in the file.
C6_InfoHashOfInfoSpan ==
    load_pc = "Ok" => hashed = Some(InfoSpan(raw_data))

\* ------------------------------------------------------------ connections
\* How often connection p is in the pool, and which workers hold it.
InPool(p) == Cardinality({k \in 1 .. Len(pool) : pool[k] = p})
Holders(p) == {w \in Workers : peer[w] = Some(p)}

\* C11: every connection is either once in the pool or held by exactly one
\* worker, so pool plus held stays NumPeers; a worker that is between two
\* turns of its loop, or has left it, holds no connection: it has put back
\* what it took, after a skip, a failure or a success.
C11_ConnectionOwnedOnce ==
    /\ \A p \in Peers : InPool(p) + Cardinality(Holders(p)) = 1
    /\ \A w \in Workers : pc[w] \in {"pick", "take", "result", "done"} => peer[w] = None

\* Both connections have been taken and put back, in the other order, one
\* of them after a piece was downloaded.
C11_Witness ==
    /\ pool = <<2, 1>>
    /\ \E i \in Pieces : pieces[i].state = "Complete"

\* ---------------------------------------------------------- bencode encoder
\* The decimal digits of n >= 0, as to_string writes them.
RECURSIVE Digits(_)
Digits(n) ==
    IF n < 10 THEN <<DigitChars[n + 1]>>
    ELSE Digits(n \div 10) \o <<DigitChars[(n % 10) + 1]>>

\* to_string without the sign.
Mut_to_string(n) == IF n < 0 THEN Digits(0 - n) ELSE Digits(n)

\* i64::to_string and usize::to_string.
to_string(n) == IF n < 0 THEN <<"-">> \o Digits(0 - n) ELSE Digits(n)

\* The order of the bytes that keys are made of.
ByteOrder == <<"a", "b", "d", "e", "i", "l">>
ByteRank(c) == CHOOSE k \in 1 .. Len(ByteOrder) : ByteOrder[k] = c

\* Ord for Vec<u8>: the order BTreeMap keeps its keys in.
RECURSIVE BytesLess(_, _)
BytesLess(x, y) ==
    IF y = <<>> THEN FALSE
    ELSE IF x = <<>> THEN TRUE
    ELSE IF Head(x) # Head(y) THEN ByteRank(Head(x)) < ByteRank(Head(y))
    ELSE BytesLess(Tail(x), Tail(y))

FirstKey(keys) == CHOOSE k \in keys : \A other \in keys \ {k} : BytesLess(k, other)

RECURSIVE encode_into(_)
RECURSIVE encode_items(_)
RECURSIVE encode_entries(_, _)

\* encoder.rs 22-28: the items of a list, in order.
encode_items(list) ==
    IF list = <<>> THEN <<>>
    ELSE encode_into(Head(list)) \o encode_items(Tail(list))

\* encoder.rs 29-40: the entries of a dict, in the order of their keys.
encode_entries(dict, keys) ==
    IF keys = {} THEN <<>>
    ELSE LET key == FirstKey(keys)
         IN to_string(Len(key)) \o <<":">> \o key
            \o encode_into(dict[key])
            \o encode_entries(dict, keys \ {key})

encode_into(value) ==
    IF value.t = "int" THEN <<"i">> \o to_string(value.i) \o <<"e">>
    ELSE IF value.t = "str" THEN to_string(Len(value.s)) \o <<":">> \o value.s
    ELSE IF value.t = "list" THEN <<"l">> \o encode_items(value.l) \o <<"e">>
    ELSE <<"d">> \o encode_entries(value.d, DOMAIN value.d) \o <<"e">>

encode(value) == encode_into(value)

\* The values given to encode: integers (negative ones, several digits),
\* byte strings (the empty one, ones made of the bytes of the syntax), lists
\* and dicts of them (empty ones, nested ones).
IntValues == {BInteger(n) : n \in {0, 7, -1, -10, 305, -2147483647}}
StrValues == {BString(str) : str \in {<<>>, <<"a">>, <<"i", "e">>, <<"l", "d", "e">>}}
Atoms == IntValues \cup StrValues
Keys == {<<>>, <<"a">>, <<"a", "b">>, <<"b">>}
FlatLists ==
    {BListOf(<<>>)} \cup {BListOf(<<x>>) : x \in Atoms}
    \cup {BListOf(<<x, y>>) : x \in IntValues, y \in StrValues}
FlatDicts ==
    {BDictOf(EmptyDict)}
    \cup {BDictOf(Insert(EmptyDict, k, x)) : k \in Keys, x \in {BInteger(-1), BString(<<>>)}}
    \cup {BDictOf(Insert(Insert(EmptyDict, <<"b">>, x), k, BInteger(7))) :
            k \in {<<>>, <<"a">>, <<"a", "b">>}, x \in StrValues}
NestedValues ==
    {BListOf(<<x, BListOf(<<>>)>>) : x \in {BDictOf(EmptyDict), BListOf(<<BInteger(-1)>>)}}
    \cup {BDictOf(Insert(EmptyDict, <<"a">>, x)) :
            x \in {BListOf(<<>>), BDictOf(EmptyDict),
                   BDictOf(Insert(EmptyDict, <<>>, BListOf(<<BString(<<>>), BInteger(0)>>)))}}
BencodeValues == Atoms \cup FlatLists \cup FlatDicts \cup NestedValues

\* Result<T>.
Ok(x) == <<"Ok", x>>
Err(e) == <<"Err", e>>

\* The texts given to decode as they are: integers in canonical form and
\* not (a sign before zero, leading zeros, a plus sign, no digits).
IntegerTexts ==
    {<<"i", "0", "e">>, <<"i", "3", "e">>, <<"i", "-", "3", "e">>,
     <<"i", "1", "0", "e">>,
     <<"i", "-", "0", "e">>, <<"i", "0", "3", "e">>, <<"i", "0", "0", "e">>,
     <<"i", "-", "0", "3", "e">>, <<"i", "+", "3", "e">>,
     <<"i", "e">>, <<"i", "-", "e">>, <<"i", "3">>}

\* encoder.rs 4-8: encode(&value).
BencodeEncode ==
    /\ UNCHANGED <<downloadVars, torrentVars, lockVars>>
    /\ codec = "bencode"
    /\ codec_in # None
    /\ codec_bytes = None
    /\ codec_bytes' = Some(encode(codec_in[1]))
    /\ UNCHANGED <<codec, codec_in, codec_out>>

\* decoder.rs 6-9: decode(&data).
BencodeDecode ==
    /\ UNCHANGED <<downloadVars, torrentVars, lockVars>>
    /\ codec = "bencode"
    /\ codec_bytes # None
    /\ codec_out = None
    /\ LET r == decode(codec_bytes[1])
       IN codec_out' = Some(IF r.ok THEN Ok(r.value) ELSE Err("BencodeError"))
    /\ UNCHANGED <<codec, codec_in, codec_bytes>>

\* ------------------------------------------------------------ peer messages
\* Wire bytes of the peer protocol are numbers 0 .. 255.
Cancel(i, o, l) == [id |-> "Cancel", piece_index |-> i, offset |-> o, length |-> l]

\* Message type IDs.
CHOKE == 0
UNCHOKE == 1
INTERESTED == 2
NOT_INTERESTED == 3
\* HAVE, which is a reserved word here.
HAVE_ID == 4
BITFIELD == 5
REQUEST == 6
PIECE == 7
CANCEL == 8

\* put_u32 with the least significant byte first.
Mut_put_u32(x) ==
    <<x % 256, (x \div 256) % 256, (x \div 65536) % 256, x \div 16777216>>

\* BufMut::put_u32: big-endian.
put_u32(x) ==
    <<x \div 16777216, (x \div 65536) % 256, (x \div 256) % 256, x % 256>>

\* Buf::get_u32 on the four bytes after `pos`.
get_u32(data, pos) ==
    ((data[pos + 1] * 256 + data[pos + 2]) * 256 + data[pos + 3]) * 256
    + data[pos + 4]

PeerMessage_to_bytes(m) ==
    CASE m.id = "KeepAlive"     -> put_u32(0)
      [] m.id = "Choke"         -> put_u32(1) \o <<CHOKE>>
      [] m.id = "Unchoke"       -> put_u32(1) \o <<UNCHOKE>>
      [] m.id = "Interested"    -> put_u32(1) \o <<INTERESTED>>
      [] m.id = "NotInterested" -> put_u32(1) \o <<NOT_INTERESTED>>
      [] m.id = "Have"          -> put_u32(5) \o <<HAVE_ID>> \o put_u32(m.piece_index)
      [] m.id = "Bitfield"      -> put_u32(1 + Len(m.bitfield)) \o <<BITFIELD>>
                                   \o m.bitfield
      [] m.id = "Request"       -> put_u32(13) \o <<REQUEST>>
                                   \o put_u32(m.piece_index) \o put_u32(m.offset)
                                   \o put_u32(m.length)
      [] m.id = "Piece"         -> put_u32(9 + Len(m.data)) \o <<PIECE>>
                                   \o put_u32(m.piece_index) \o put_u32(m.offset)
                                   \o m.data
      [] m.id = "Cancel"        -> put_u32(13) \o <<CANCEL>>
                                   \o put_u32(m.piece_index) \o put_u32(m.offset)
                                   \o put_u32(m.length)

\* from_bytes after the length checks: `body` is what follows the message id.
FromBody(message_id, body) ==
    CASE message_id = CHOKE -> Ok(Choke)
      [] message_id = UNCHOKE -> Ok(Unchoke)
      [] message_id = INTERESTED -> Ok(Interested)
      [] message_id = NOT_INTERESTED -> Ok(NotInterested)
      [] message_id = HAVE_ID ->
            IF Len(body) < 4 THEN Err("PeerError")
            ELSE Ok(Have(get_u32(body, 0)))
      [] message_id = BITFIELD -> Ok(Bitfield(body))
      [] message_id = REQUEST ->
            IF Len(body) < 12 THEN Err("PeerError")
            ELSE Ok(Request(get_u32(body, 0), get_u32(body, 4), get_u32(body, 8)))
      [] message_id = PIECE ->
            IF Len(body) < 8 THEN Err("PeerError")
            ELSE Ok(Piece(get_u32(body, 0), get_u32(body, 4),
                          SubSeq(body, 9, Len(body))))
      [] message_id = CANCEL ->
            IF Len(body) < 12 THEN Err("PeerError")
            ELSE Ok(Cancel(get_u32(body, 0), get_u32(body, 4), get_u32(body, 8)))
      [] OTHER -> Err("PeerError")

PeerMessage_from_bytes(data) ==
    IF Len(data) < 4 THEN Err("PeerError")
    ELSE LET length == get_u32(data, 0)
             rest == SubSeq(data, 5, Len(data))
         IN IF length = 0 THEN Ok(KeepAlive)
            ELSE IF Len(rest) < length THEN Err("PeerError")
            ELSE FromBody(rest[1], Tail(rest))

\* The messages given to to_bytes: every variant, u32 fields with one to
\* four significant bytes, payloads empty and not.
U32Values == {0, 1, 258, 16909060, 2147483647}
Payloads == {<<>>, <<0>>, <<255, 0, 7>>}
PeerMessages ==
    {KeepAlive, Choke, Unchoke, Interested, NotInterested}
    \cup {Have(i) : i \in U32Values}
    \cup {Bitfield(b) : b \in Payloads}
    \cup {Request(i, o, 16384) : i, o \in U32Values}
    \cup {Piece(i, o, d) : i \in U32Values, o \in {0, 16384}, d \in Payloads}
    \cup {Cancel(i, 16384, l) : i, l \in U32Values}

\* message.rs 68-129: m.to_bytes().
MessageToBytes ==
    /\ UNCHANGED <<downloadVars, torrentVars, lockVars>>
    /\ codec = "message"
    /\ codec_in # None
    /\ codec_bytes = None
    /\ codec_bytes' = Some(PeerMessage_to_bytes(codec_in[1]))
    /\ UNCHANGED <<codec, codec_in, codec_out>>

\* message.rs 132-209: PeerMessage::from_bytes(&data).
MessageFromBytes ==
    /\ UNCHANGED <<downloadVars, torrentVars, lockVars>>
    /\ codec = "message"
    /\ codec_bytes # None
    /\ codec_out = None
    /\ codec_out' = Some(PeerMessage_from_bytes(codec_bytes[1]))
    /\ UNCHANGED <<codec, codec_in, codec_bytes>>

\* ---------------------------------------------------------------- handshake
\* b"BitTorrent protocol"
PROTOCOL_STRING == <<66, 105, 116, 84, 111, 114, 114, 101, 110, 116, 32, 112, 114, 111, 116, 111, 99, 111, 108>>

\* to_bytes with info_hash and peer_id in the other order.
Mut_Handshake_to_bytes(h) ==
    <<Len(PROTOCOL_STRING)>> \o PROTOCOL_STRING \o [k \in 1 .. 8 |-> 0]
    \o h.peer_id \o h.info_hash

Handshake_to_bytes(h) ==
    <<Len(PROTOCOL_STRING)>> \o PROTOCOL_STRING \o [k \in 1 .. 8 |-> 0]
    \o h.info_hash \o h.peer_id

Handshake_from_bytes(data) ==
    IF Len(data) < 68 THEN Err("PeerError")
    ELSE LET pstrlen == data[1]
         IN IF pstrlen # Len(PROTOCOL_STRING) THEN Err("PeerError")
            ELSE IF SubSeq(data, 2, 1 + pstrlen) # PROTOCOL_STRING
            THEN Err("PeerError")
            ELSE Ok([info_hash |-> SubSeq(data, 29, 48),
                     peer_id |-> SubSeq(data, 49, 68)])

\* The 20-byte arrays given as info_hash and as peer_id.
Arrays20 ==
    {[k \in 1 .. HASH_LEN |-> c] : c \in {0, 1, 255}}
    \cup {[k \in 1 .. HASH_LEN |-> k], [k \in 1 .. HASH_LEN |-> 256 - k]}
Handshakes == [info_hash : Arrays20, peer_id : Arrays20]

\* protocol.rs 24-43: h.to_bytes().
HandshakeToBytes ==
    /\ UNCHANGED <<downloadVars, torrentVars, lockVars>>
    /\ codec = "handshake"
    /\ codec_in # None
    /\ codec_bytes = None
    /\ codec_bytes' = Some(Handshake_to_bytes(codec_in[1]))
    /\ UNCHANGED <<codec, codec_in, codec_out>>

\* protocol.rs 46-80: Handshake::from_bytes(&data).
HandshakeFromBytes ==
    /\ UNCHANGED <<downloadVars, torrentVars, lockVars>>
    /\ codec = "handshake"
    /\ codec_bytes # None
    /\ codec_out = None
    /\ codec_out' = Some(Handshake_from_bytes(codec_bytes[1]))
    /\ UNCHANGED <<codec, codec_in, codec_bytes>>

\* ---------------------------------------------------------- the conversions
InitCodec ==
    /\ LocksIdle
    /\ NotDownloading
    /\ TorrentIdle
    /\ codec_out = None
    /\ \/ /\ codec = "bencode"
          /\ codec_in \in {Some(v) : v \in BencodeValues}
          /\ codec_bytes = None
       \/ /\ codec = "bencode"
          /\ codec_in = None
          /\ codec_bytes \in {Some(text) : text \in IntegerTexts}
       \/ /\ codec = "message"
          /\ codec_in \in {Some(m) : m \in PeerMessages}
          /\ codec_bytes = None
       \/ /\ codec = "handshake"
          /\ codec_in \in {Some(h) : h \in Handshakes}
          /\ codec_bytes = None

NextCodec ==
    \/ BencodeEncode
    \/ BencodeDecode
    \/ MessageToBytes
    \/ MessageFromBytes
    \/ HandshakeToBytes
    \/ HandshakeFromBytes

SpecCodec == InitCodec /\ [][NextCodec]_vars

\* C12: for every value given to encode, decode of the encoded bytes
\* succeeds and returns a value equal to the one encoded.
C12_BencodeRoundTrip ==
    (codec = "bencode" /\ codec_in # None /\ codec_out # None)
        => codec_out[1] = Ok(codec_in[1])

\* A dict of two entries whose keys were given in the other order, holding
\* a string made of syntax bytes, has gone through encode and decode.
C12_Witness ==
    /\ codec = "bencode"
    /\ codec_out # None
    /\ codec_in = Some(BDictOf(Insert(Insert(EmptyDict, <<"b">>, BString(<<"l", "d", "e">>)),
                                      <<"a", "b">>, BInteger(7))))

\* C13: to_bytes starts with a 4-byte big-endian length equal to the number
\* of bytes after it, and from_bytes of to_bytes(m) returns Ok(m), for every
\* variant.
C13_MessageRoundTrip ==
    codec = "message" =>
        /\ codec_bytes # None =>
              /\ Len(codec_bytes[1]) >= 4
              /\ get_u32(codec_bytes[1], 0) = Len(codec_bytes[1]) - 4
        /\ codec_out # None => codec_out[1] = Ok(codec_in[1])

\* A Piece message with empty data has gone through to_bytes and from_bytes.
C13_Witness ==
    /\ codec = "message"
    /\ codec_out # None
    /\ codec_in = Some(Piece(16909060, 16384, <<>>))

\* C14: to_bytes gives 68 bytes: 19, the protocol string, 8 zero bytes,
\* info_hash, peer_id; from_bytes of them returns Ok of the same handshake.
C14_HandshakeRoundTrip ==
    codec = "handshake" =>
        /\ codec_bytes # None =>
              LET bytes == codec_bytes[1]
              IN /\ Len(bytes) = 68
                 /\ bytes[1] = 19
                 /\ SubSeq(bytes, 2, 20) = PROTOCOL_STRING
                 /\ \A k \in 21 .. 28 : bytes[k] = 0
                 /\ SubSeq(bytes, 29, 48) = codec_in[1].info_hash
                 /\ SubSeq(bytes, 49, 68) = codec_in[1].peer_id
        /\ codec_out # None => codec_out[1] = Ok(codec_in[1])

\* A handshake whose info_hash and peer_id differ has gone through to_bytes
\* and from_bytes.
C14_Witness ==
    /\ codec = "handshake"
    /\ codec_out # None
    /\ codec_in[1].info_hash # codec_in[1].peer_id

\* The digits of an integer text have a sign before zero or a superfluous
\* leading zero.
NotCanonical(text) ==
    LET body == SubSeq(text, 2, Len(text) - 1)
    IN \/ Len(body) >= 2 /\ body[1] = "0"
       \/ Len(body) >= 2 /\ body[1] = "-" /\ body[2] = "0"

\* C15: decode of i0e is Ok(0); decode of an integer with a sign before zero
\* or a superfluous leading zero is an error.
C15_CanonicalIntegers ==
    (codec = "bencode" /\ codec_in = None /\ codec_out # None) =>
        /\ codec_bytes[1] = <<"i", "0", "e">> => codec_out[1] = Ok(BInteger(0))
        /\ NotCanonical(codec_bytes[1]) => codec_out[1][1] = "Err"

\* ------------------------------------------------------------------ storage
\* The most files a torrent of the storage runs has.
MaxFiles == 3

\* The file lists of `total` bytes: up to MaxFiles lengths, zero among them.
RECURSIVE SumOf(_)
SumOf(lengths) == IF lengths = <<>> THEN 0 ELSE Head(lengths) + SumOf(Tail(lengths))

AnyFileLists(total) ==
    {lengths \in UNION {[1 .. n -> 0 .. total] : n \in 1 .. MaxFiles} :
        SumOf(lengths) = total}

\* The buffers given to write_piece: up to a piece of bytes.
Buffers == UNION {[1 .. n -> {0, 1}] : n \in 0 .. PieceLength}

\* StorageManager::new for any file list; nothing else of a download runs.
\* piece_index and piece_data hold the arguments of the last write_piece.
InitStorage ==
    /\ LocksIdle
    /\ TorrentIdle
    /\ CodecIdle
    /\ total_length \in TotalLengths
    /\ \E lengths \in AnyFileLists(total_length) :
          /\ files = FileEntries(lengths, 0)
          /\ disk = [f \in 1 .. Len(lengths) |-> Unwritten(lengths[f])]
    /\ piece_index = <<0>>
    /\ piece_data = <<<<>>>>
    /\ pieces = <<>>
    /\ downloading = <<>>
    /\ picker = <<>>
    /\ conns = <<>>
    /\ pool = <<>>
    /\ kind = <<>>
    /\ inbox = <<>>
    /\ pc = <<>>
    /\ peer = <<>>
    /\ block_index = <<>>
    /\ result = <<>>
    /\ receive_result = <<>>
    /\ requested = <<>>
    /\ outcome = "running"

\* storage/mod.rs 75-89: write_piece(index, data) for any piece and buffer.
WriteAnyPiece ==
    /\ UNCHANGED <<torrentVars, codecVars, lockVars>>
    /\ \E index \in Pieces, data \in Buffers :
          /\ disk' = write_piece(files, disk, index, data)
          /\ piece_index' = <<index>>
          /\ piece_data' = <<data>>
    /\ UNCHANGED <<receive_result, requested, total_length, pieces, downloading, picker, conns, pool, kind,
                   inbox, pc, peer, block_index, result, files, outcome>>

NextStorage == WriteAnyPiece

SpecStorage == InitStorage /\ [][NextStorage]_vars

\* The file that holds global offset g, and g's offset in it.
FileOf(g) ==
    CHOOSE f \in 1 .. Len(files) :
        files[f].offset <= g /\ g < files[f].offset + files[f].length

\* C16: write_piece(i, bytes) stores byte k of the buffer at global offset
\* g = i * piece_length + k, that is in the file whose range holds g, at
\* in-file offset g - file_offset; every other stored byte is as before.
C16_Striping ==
    [][\A g \in 0 .. total_length - 1 :
          LET i == piece_index'[1]
              k == g - i * PieceLength
              f == FileOf(g)
          IN disk'[f][g - files[f].offset + 1] =
                IF 0 <= k /\ k < Len(piece_data'[1])
                THEN piece_data'[1][k + 1]
                ELSE disk[f][g - files[f].offset + 1]]_vars

\* A full piece has been written across a file boundary, over a zero-length
\* file between the two, next to bytes written before.
C16_Witness ==
    /\ Len(files) = 3
    /\ files[1].length = 1
    /\ files[2].length = 0
    /\ piece_index = <<0>>
    /\ Len(piece_data[1]) = PieceLength
    /\ disk[1][1] = piece_data[1][1]
    /\ disk[3][1] = piece_data[1][2]
    /\ disk[3][2] # -1

\* ----------------------------------------------------------- loaded torrents
\* The info value of an accepted descriptor, as decode returns it.
DecodedInfo(data) == decode(data).value.d[B_info]

\* TorrentInfo.files[..].path: one path per file, each a list of components.
FilePaths(info) ==
    IF B_length \in DOMAIN info.d
    THEN <<<<info.d[B_name].s>>>>
    ELSE [k \in 1 .. Len(info.d[B_files].l) |->
            LET path_list == info.d[B_files].l[k].d[B_path].l
            IN [j \in 1 .. Len(path_list) |-> path_list[j].s]]

\* A path that is empty or has a component that leaves the download root:
\* "..", or one that starts with "/".
Escapes(path) ==
    \/ path = <<>>
    \/ \E j \in 1 .. Len(path) :
          \/ path[j] = <<".", ".">>
          \/ path[j] # <<>> /\ path[j][1] = "/"

\* C17: parse_torrent returns Ok only for torrents in which no file's path
\* is empty or has a component that escapes the download root.
C17_NoEscapingPath ==
    load_pc = "Ok" =>
        LET paths == FilePaths(DecodedInfo(raw_data))
        IN \A k \in 1 .. Len(paths) : ~Escapes(paths[k])

\* TorrentInfo.total_length, piece_length and pieces.len().
RECURSIVE SumFileLengths(_)
SumFileLengths(file_list) ==
    IF file_list = <<>> THEN 0
    ELSE Head(file_list).d[B_length].i + SumFileLengths(Tail(file_list))

TotalLengthOf(info) ==
    IF B_length \in DOMAIN info.d THEN info.d[B_length].i
    ELSE SumFileLengths(info.d[B_files].l)

PieceLengthIn(info) == info.d[B_piece_length].i
PieceCount(info) == Len(info.d[B_pieces].s) \div HASH_LEN

\* C18: for every torrent parse_torrent returns Ok for, piece_length > 0 and
\* total_length = (piece_count - 1) * piece_length + last_piece_length with
\* 0 < last_piece_length <= piece_length.
C18_SizesFitTogether ==
    load_pc = "Ok" =>
        LET info == DecodedInfo(raw_data)
        IN /\ PieceLengthIn(info) > 0
           /\ \E last_piece_length \in 1 .. PieceLengthIn(info) :
                 TotalLengthOf(info) =
                    (PieceCount(info) - 1) * PieceLengthIn(info) + last_piece_length

\* ------------------------------------------------- picking among many pieces
\* Enough pieces for two picks before the picker enters endgame mode.
PickerPieces == 7

\* A torrent of PickerPieces pieces of one byte; the worker loop without the
\* sessions: only what a piece attempt does to the picker and the manager.
InitPicker ==
    /\ LocksIdle
    /\ TorrentIdle
    /\ CodecIdle
    /\ total_length = PickerPieces
    /\ pieces = [index \in 0 .. PickerPieces - 1 |->
                    [length |-> 1, state |-> "Missing",
                     hash |-> Sha1(PieceContent(index, 1))]]
    /\ downloading = <<>>
    /\ picker = PiecePicker_of(PickerPieces)
    /\ pc = [w \in Workers |-> "pick"]
    /\ piece_index = [w \in Workers |-> 0]
    /\ result = [w \in Workers |-> "Ok"]
    /\ receive_result = [w \in Workers |-> None]
    /\ requested = [w \in Workers |-> <<>>]
    /\ conns = <<>>
    /\ pool = <<>>
    /\ kind = <<>>
    /\ inbox = <<>>
    /\ peer = <<>>
    /\ block_index = <<>>
    /\ piece_data = <<>>
    /\ files = <<>>
    /\ disk = <<>>
    /\ outcome = "running"

\* client/mod.rs 207-212: the popped peer lacks the piece; continue.
PeerLacksPiece(w) ==
    /\ UNCHANGED <<torrentVars, codecVars, lockVars>>
    /\ pc[w] = "take"
    /\ pc' = [pc EXCEPT ![w] = "pick"]
    /\ piece_index' = [piece_index EXCEPT ![w] = 0]
    /\ UNCHANGED <<receive_result, requested, total_length, pieces, downloading, picker, conns, pool, kind,
                   inbox, peer, block_index, piece_data, result, files, disk,
                   outcome>>

\* client/mod.rs 286-290: the peer has the piece; start_piece.
BeginAttempt(w) ==
    /\ UNCHANGED <<torrentVars, codecVars, lockVars>>
    /\ pc[w] = "take"
    /\ LET r == start_piece(pieces, downloading, piece_index[w])
       IN /\ pieces' = r.pieces
          /\ downloading' = r.downloading
          /\ pc' = [pc EXCEPT ![w] = IF r.ok THEN "interested" ELSE "result"]
          /\ result' = [result EXCEPT ![w] = IF r.ok THEN "Ok" ELSE "PieceError"]
    /\ UNCHANGED <<receive_result, requested, total_length, picker, conns, pool, kind, inbox, piece_index,
                   peer, block_index, piece_data, files, disk, outcome>>

\* client/mod.rs 292-393, 236-239: the rest of the attempt: the blocks arrive
\* and verify, or they arrive and do not verify, or the session fails.
EndAttempt(w) ==
    /\ UNCHANGED <<torrentVars, codecVars, lockVars>>
    /\ pc[w] = "interested"
    /\ LET index == piece_index[w]
           content == PieceContent(index, 1)
       IN \/ LET r == complete_piece(pieces, [downloading EXCEPT ![index] = content],
                                     index)
             IN /\ pieces' = r.pieces
                /\ downloading' = r.downloading
                /\ pc' = [pc EXCEPT ![w] = "pick"]
                /\ piece_index' = [piece_index EXCEPT ![w] = 0]
                /\ UNCHANGED result
          \/ LET r == complete_piece(pieces,
                                     [downloading EXCEPT ![index] = Corrupt(content)],
                                     index)
             IN /\ pieces' = r.pieces
                /\ downloading' = r.downloading
                /\ pc' = [pc EXCEPT ![w] = "result"]
                /\ result' = [result EXCEPT ![w] = "PieceError"]
                /\ UNCHANGED piece_index
          \/ /\ pc' = [pc EXCEPT ![w] = "result"]
             /\ result' = [result EXCEPT ![w] = "PeerError"]
             /\ UNCHANGED <<pieces, downloading, piece_index>>
    /\ UNCHANGED <<receive_result, requested, total_length, picker, conns, pool, kind, inbox, peer,
                   block_index, piece_data, files, disk, outcome>>

\* Endgame mode is never left once entered (picker.rs has no assignment of
\* false after new), so the workers are followed up to the call that enters it.
NextPicker ==
    \E w \in Workers :
        \/ ~picker.endgame_mode /\ PickPiece(w)
        \/ ~picker.endgame_mode /\ PeerLacksPiece(w)
        \/ ~picker.endgame_mode /\ BeginAttempt(w)
        \/ ~picker.endgame_mode /\ EndAttempt(w)
        \/ ~picker.endgame_mode /\ HandleResult(w)

SpecPicker == InitPicker /\ [][NextPicker]_vars

\* Worker w holds a piece: it has picked one and its attempt has neither
\* succeeded nor failed nor been skipped.
HoldsPiece(w) == pc[w] \in {"take", "interested"}

\* C19: a pick_piece call that returns a piece while the picker is not in
\* endgame mode leaves that piece Downloading in the picker; and while the
\* picker is not in endgame mode no two workers hold the same piece.
C19_PickMarksDownloading ==
    [][/\ \A w \in Workers :
             (pc[w] = "pick" /\ pc'[w] = "take" /\ ~picker'.endgame_mode)
                => picker'.piece_states[piece_index'[w]] = "Downloading"
       /\ ~picker'.endgame_mode =>
             \A w1, w2 \in Workers :
                (w1 # w2 /\ pc'[w1] \in {"take", "interested"}
                         /\ pc'[w2] \in {"take", "interested"})
                   => piece_index'[w1] # piece_index'[w2]]_vars

\* Two workers hold pieces, one of them after a failed attempt of the other
\* piece's holder, and the picker is not in endgame mode.
C19_Witness ==
    /\ ~picker.endgame_mode
    /\ HoldsPiece(1)
    /\ HoldsPiece(2)
    /\ piece_index[1] # piece_index[2]

\* ------------------------------------------------- one completion per piece
\* C20: in every run a piece's complete_piece succeeds at most once (Complete
\* is reached from Downloading and never left), write_piece is called at most
\* once for it (only by the worker whose complete_piece just succeeded, on a
\* disk extent nobody wrote before), and a worker whose start_piece finds the
\* piece not Missing gets an error and leaves the catalog and every assembly
\* buffer as they were.
C20_CompleteAndWriteOnce ==
    [][/\ \A i \in Pieces :
             pieces[i].state = "Complete" => pieces'[i].state = "Complete"
       /\ \A w \in Workers :
             (pc[w] # "write" /\ pc'[w] = "write") =>
                /\ pieces[piece_index[w]].state = "Downloading"
                /\ pieces'[piece_index[w]].state = "Complete"
                /\ \A v \in Workers \ {w} :
                      ~(pc[v] = "write" /\ piece_index[v] = piece_index[w])
       /\ \A w \in Workers :
             (pc[w] = "write" /\ pc'[w] # "write") =>
                DiskPiece(files, disk, pieces, piece_index[w])
                   = Unwritten(pieces[piece_index[w]].length)
       /\ \A w \in Workers :
             (pc[w] = "start" /\ pc'[w] # "start"
                /\ pieces[piece_index[w]].state # "Missing") =>
                /\ result'[w] = "PieceError"
                /\ pieces' = pieces
                /\ downloading' = downloading]_vars

\* Two workers were handed the same piece: one completed it and is about to
\* write it, the other lost at start_piece, before sending anything on its
\* connection.
C20_Witness ==
    \E w, v \in Workers :
        /\ w # v
        /\ piece_index[w] = piece_index[v]
        /\ pc[w] = "write"
        /\ pieces[piece_index[w]].state = "Complete"
        /\ pc[v] = "putback"
        /\ result[v] = "PieceError"
        /\ ~conns[PeerOf(v)].state.am_interested

\* ------------------------------------------------- the per-piece protocol
\* The Request worker w sent last.
LastRequest(w) == requested[w][Len(requested[w])]

InOrder(w) ==
    \A k \in 1 .. Len(requested[w]) :
        /\ requested[w][k].piece_index = piece_index[w]
        /\ requested[w][k].offset = (k - 1) * BlockLen
        /\ get_block_info(pieces, piece_index[w], k - 1)
              = Some(<<requested[w][k].offset, requested[w][k].length>>)

\* The number of Requests of the attempt at each position of the worker: one
\* more than the blocks answered while it waits for a reply, as many
\* otherwise, and all of the piece's blocks at complete_piece.
CountFits(w) ==
    /\ pc[w] = "recv" => Len(requested[w]) = block_index[w] + 1
    /\ pc[w] = "request" => Len(requested[w]) = block_index[w]
    /\ pc[w] \in {"complete", "write"} =>
          Len(requested[w]) = blocks_in_piece(pieces, piece_index[w])

Receives(w) ==
    /\ pc[w] \in {"unchoke", "recv"}
    /\ receive_result'[w] # None
    /\ pc'[w] # pc[w] \/ receive_result'[w] # receive_result[w]

C28_FirstBitfieldRecorded ==
    \A p \in Peers :
        (inbox[p] # <<>> /\ Head(inbox[p]).id = "Bitfield")
            ~> (conns[p].bitfield # None)

\* ------------------------------------------------- the session's four flags
\* Every value of the four flags, with and without a recorded bitfield.
Sessions ==
    [state : [am_choking : BOOLEAN, am_interested : BOOLEAN,
              peer_choking : BOOLEAN, peer_interested : BOOLEAN],
     bitfield : {None, Some(<<0>>)}]

\* One frame of each kind.
SessionFrames ==
    {KeepAlive, Choke, Unchoke, Interested, NotInterested, Have(0),
     Bitfield(<<128>>), Request(0, 0, 16384), Piece(0, 0, <<7>>),
     Cancel(0, 0, 16384)}

\* A session and a frame that is about to be sent or received on it.
InitSession ==
    /\ LocksIdle
    /\ NotDownloading
    /\ TorrentIdle
    /\ codec \in {"send", "receive"}
    /\ codec_in \in {Some(<<c, m>>) : c \in Sessions, m \in SessionFrames}
    /\ codec_bytes = None
    /\ codec_out = None

\* connection.rs 60-75: send_message; write_all fails or the flags follow.
SessionSend ==
    /\ UNCHANGED <<downloadVars, torrentVars, lockVars>>
    /\ codec = "send"
    /\ codec_out = None
    /\ LET c == codec_in[1][1]
           m == codec_in[1][2]
       IN \/ /\ codec_bytes' = Some(PeerMessage_to_bytes(m))
             /\ codec_out' = Some(Ok(OnSend(c, m.id)))
          \/ /\ codec_bytes' = None
             /\ codec_out' = Some(Err(c))
    /\ UNCHANGED <<codec, codec_in>>

\* connection.rs 78-107: receive_message; the frame's bytes are parsed and
\* handle_message updates the session.
SessionReceive ==
    /\ UNCHANGED <<downloadVars, torrentVars, lockVars>>
    /\ codec = "receive"
    /\ codec_out = None
    /\ LET c == codec_in[1][1]
           m == codec_in[1][2]
           parsed == PeerMessage_from_bytes(PeerMessage_to_bytes(m))
       IN /\ codec_bytes' = Some(PeerMessage_to_bytes(m))
          /\ codec_out' = Some(IF parsed[1] = "Ok"
                               THEN Ok(handle_message(c, parsed[2]))
                               ELSE Err(c))
    /\ UNCHANGED <<codec, codec_in>>

NextSession == SessionSend \/ SessionReceive

SpecSession == InitSession /\ [][NextSession]_vars

\* The flags `state` with am_choking, am_interested, peer_choking and
\* peer_interested replaced where the argument is not None.
WithFlags(state, ac, ai, pch, pi) ==
    [am_choking |-> IF ac = None THEN state.am_choking ELSE ac[1],
     am_interested |-> IF ai = None THEN state.am_interested ELSE ai[1],
     peer_choking |-> IF pch = None THEN state.peer_choking ELSE pch[1],
     peer_interested |-> IF pi = None THEN state.peer_interested ELSE pi[1]]

\* C29: a new session has the flags (true, false, true, false); a received
\* Choke/Unchoke sets only peer_choking, a received Interested/NotInterested
\* only peer_interested, a sent Choke/Unchoke only am_choking, a sent
\* Interested/NotInterested only am_interested; every other frame, and a
\* send that fails, leaves the four flags as they were.
C29_FlagEffects ==
    /\ PeerState_default = [am_choking |-> TRUE, am_interested |-> FALSE,
                            peer_choking |-> TRUE, peer_interested |-> FALSE]
    /\ (codec \in {"send", "receive"} /\ codec_out # None) =>
          LET c == codec_in[1][1]
              id == codec_in[1][2].id
              after == codec_out[1][2].state
          IN after =
               IF codec_out[1][1] = "Err" THEN c.state
               ELSE IF codec = "receive"
               THEN CASE id = "Choke" -> WithFlags(c.state, None, None, Some(TRUE), None)
                      [] id = "Unchoke" -> WithFlags(c.state, None, None, Some(FALSE), None)
                      [] id = "Interested" -> WithFlags(c.state, None, None, None, Some(TRUE))
                      [] id = "NotInterested" -> WithFlags(c.state, None, None, None, Some(FALSE))
                      [] OTHER -> c.state
               ELSE CASE id = "Choke" -> WithFlags(c.state, Some(TRUE), None, None, None)
                      [] id = "Unchoke" -> WithFlags(c.state, Some(FALSE), None, None, None)
                      [] id = "Interested" -> WithFlags(c.state, None, Some(TRUE), None, None)
                      [] id = "NotInterested" -> WithFlags(c.state, None, Some(FALSE), None, None)
                      [] OTHER -> c.state

\* A new session has received Unchoke.
C29_Witness ==
    /\ codec = "receive"
    /\ codec_in = Some(<<[state |-> PeerState_default, bitfield |-> None], Unchoke>>)
    /\ codec_out # None
    /\ codec_out[1][1] = "Ok"
    /\ ~codec_out[1][2].state.peer_choking

\* ------------------------------------------------- when endgame mode starts
\* The pieces that are Missing in the piece catalog.
MissingInCatalog == {i \in DOMAIN pieces : pieces[i].state = "Missing"}

\* C30: the pick_piece call that enters endgame mode is made in a state in
\* which at least 1 and at most 5 pieces are Missing in the piece catalog.
C30_EndgameOnlyNearEnd ==
    [][(~picker.endgame_mode /\ picker'.endgame_mode) =>
          /\ Cardinality(MissingInCatalog) >= 1
          /\ Cardinality(MissingInCatalog) <= ENDGAME_PIECES]_vars

C40_PoolNeverEmpty ==
    \A w \in Workers : pc[w] = "take" => pool # <<>>

\* A worker goes to take a connection while the other worker holds one.
C40_Witness ==
    \E w, v \in Workers :
        /\ pc[w] = "take"
        /\ peer[v] # None
        /\ Len(pool) = NumPeers - 1

\* ------------------------------------------------- pieces the picker has out
\* C36: every piece the picker records as Downloading is assigned to a
\* worker (picked, and the attempt and its error handling not finished) or
\* Complete in the piece catalog.
C36_DownloadingIsAssigned ==
    \A i \in DOMAIN picker.piece_states :
        picker.piece_states[i] = "Downloading" =>
            \/ \E w \in Workers :
                  /\ pc[w] \in {"take", "skip", "start", "interested", "unchoke",
                                "request", "recv", "complete", "write", "putback",
                                "result"}
                  /\ piece_index[w] = i
            \/ pieces[i].state = "Complete"

\* ------------------------------------------------- the PieceManager by itself
\* The data given to add_block: up to PieceLength + 1 bytes.
BlockData ==
    UNION {[1 .. n -> {0, 1}] : n \in 0 .. PieceLength + 1}

\* A new PieceManager; pc, piece_index, block_index, piece_data and result
\* hold the last call: the method, its piece index, offset and data, and
\* what it returned.
InitManager ==
    /\ LocksIdle
    /\ TorrentIdle
    /\ CodecIdle
    /\ total_length \in TotalLengths
    /\ pieces = PieceManager_new(total_length)
    /\ downloading = <<>>
    /\ pc = <<"new">>
    /\ piece_index = <<0>>
    /\ block_index = <<0>>
    /\ piece_data = <<<<>>>>
    /\ result = <<"Ok">>
    /\ picker = <<>>
    /\ conns = <<>>
    /\ pool = <<>>
    /\ kind = <<>>
    /\ inbox = <<>>
    /\ peer = <<>>
    /\ receive_result = <<>>
    /\ requested = <<>>
    /\ files = <<>>
    /\ disk = <<>>
    /\ outcome = "running"

\* What a call leaves in the unused variables.
ManagerCall(method, index, offset, data, ok) ==
    /\ pc' = <<method>>
    /\ piece_index' = <<index>>
    /\ block_index' = <<offset>>
    /\ piece_data' = <<data>>
    /\ result' = <<IF ok THEN "Ok" ELSE "PieceError">>
    /\ UNCHANGED <<total_length, picker, conns, pool, kind, inbox, peer,
                   receive_result, requested, files, disk, outcome>>
    /\ UNCHANGED <<torrentVars, codecVars, lockVars>>

\* manager.rs 52-69: start_piece with any index, also one past the last.
CallStartPiece ==
    \E index \in 0 .. NumPieces :
        LET r == start_piece(pieces, downloading, index)
        IN /\ pieces' = r.pieces
           /\ downloading' = r.downloading
           /\ ManagerCall("start_piece", index, 0, <<>>, r.ok)

\* manager.rs 72-92: add_block with any index, offset and data.
CallAddBlock ==
    \E index \in 0 .. NumPieces, offset \in 0 .. PieceLength, data \in BlockData :
        LET r == add_block(downloading, index, offset, data)
        IN /\ downloading' = r.downloading
           /\ UNCHANGED pieces
           /\ ManagerCall("add_block", index, offset, data, r.ok)

\* manager.rs 95-119: complete_piece with any index.
CallCompletePiece ==
    \E index \in 0 .. NumPieces :
        LET r == complete_piece(pieces, downloading, index)
        IN /\ pieces' = r.pieces
           /\ downloading' = r.downloading
           /\ ManagerCall("complete_piece", index, 0, <<>>, r.ok)

NextManager == CallStartPiece \/ CallAddBlock \/ CallCompletePiece

SpecManager == InitManager /\ [][NextManager]_vars

\* Piece `index` is in state `state` in the catalog.
InState(index, state) == index \in DOMAIN pieces /\ pieces[index].state = state

\* C33: start_piece on an index out of range or on a piece that is not
\* Missing, add_block on a piece that is not Downloading or with data that
\* reaches past the piece's length, and complete_piece on a piece that is not
\* Downloading return a PieceError and change no piece state and no buffer.
C33_RejectedCallsChangeNothing ==
    [][LET index == piece_index'[1]
           rejected ==
              \/ pc'[1] = "start_piece" /\ ~InState(index, "Missing")
              \/ /\ pc'[1] = "add_block"
                 /\ \/ ~InState(index, "Downloading")
                    \/ block_index'[1] + Len(piece_data'[1]) > pieces[index].length
              \/ pc'[1] = "complete_piece" /\ ~InState(index, "Downloading")
       IN rejected => /\ result'[1] = "PieceError"
                      /\ pieces' = pieces
                      /\ downloading' = downloading]_vars

\* add_block was rejected for data that reaches past the end of a buffer
\* that already holds a byte.
C33_Witness ==
    /\ pc[1] = "add_block"
    /\ result[1] = "PieceError"
    /\ InState(piece_index[1], "Downloading")
    /\ block_index[1] + Len(piece_data[1]) > pieces[piece_index[1]].length
    /\ \E k \in 1 .. pieces[piece_index[1]].length : downloading[piece_index[1]][k] = 1

\* C38: a buffer exists for piece i exactly when piece i is Downloading, and
\* it has the piece's length.
C38_BufferIffDownloading ==
    \A i \in DOMAIN pieces :
        /\ i \in DOMAIN downloading <=> pieces[i].state = "Downloading"
        /\ i \in DOMAIN downloading => Len(downloading[i]) = pieces[i].length

\* One piece is Complete, the other one Downloading after a buffer of it
\* failed verification.
C38_Witness ==
    /\ InState(0, "Complete")
    /\ InState(1, "Downloading")
    /\ 0 \notin DOMAIN downloading
    /\ 1 \in DOMAIN downloading

\* -------------------------------------------- block arithmetic at its width
\* piece/mod.rs 8: pub const BLOCK_SIZE: u32 = 16 * 1024.
BLOCK_SIZE == 16 * 1024

\* 2^32 / BLOCK_SIZE: a u32 product k * BLOCK_SIZE wraps from this k on.
WrapBlocks == (Pow2(16) \div BLOCK_SIZE) * Pow2(16)

\* manager.rs 126-128, in u64: the block count of a piece of `length` bytes.
blocks_in_piece_u64(length) == (length + BLOCK_SIZE - 1) \div BLOCK_SIZE

\* manager.rs 136-150 for a piece of `length` bytes, with the u32 product of
\* line 138: with overflow checks (debug builds) a product of 2^32 or more
\* panics, without them (release builds) it wraps.  The block indices and
\* lengths given are those whose values stay below 2^31.
get_block_info_u32(length, block, overflow_checks) ==
    IF overflow_checks /\ block >= WrapBlocks
    THEN <<"panic">>
    ELSE LET offset == (block % WrapBlocks) * BLOCK_SIZE
         IN IF offset >= length THEN Ok(None)
            ELSE Ok(Some(<<offset, Min(BLOCK_SIZE, length - offset)>>))

\* Piece lengths around one, two and three blocks, and large ones.
RealLengths ==
    {1, BLOCK_SIZE - 1, BLOCK_SIZE, BLOCK_SIZE + 1, 2 * BLOCK_SIZE - 1,
     2 * BLOCK_SIZE, 2 * BLOCK_SIZE + 1, 3 * BLOCK_SIZE, 40000,
     Pow2(16) * BLOCK_SIZE - 1, Pow2(16) * BLOCK_SIZE, Pow2(16) * BLOCK_SIZE + 1}

\* Block indices below, at and above the counts, and at and above 2^32 / BLOCK_SIZE.
RealBlocks ==
    {0, 1, 2, 3, Pow2(16) - 1, Pow2(16), Pow2(16) + 1,
     WrapBlocks, WrapBlocks + 1, WrapBlocks + 2, 2 * WrapBlocks}

\* A PieceManager with one piece of total_length bytes; block_index and result
\* hold the argument and the return value of the last get_block_info call,
\* piece_index the last return value of blocks_in_piece.
InitBlocks ==
    /\ LocksIdle
    /\ TorrentIdle
    /\ CodecIdle
    /\ total_length \in RealLengths
    /\ pc = <<"new">>
    /\ piece_index = <<0>>
    /\ block_index = <<0>>
    /\ result = <<Ok(None)>>
    /\ pieces = <<>>
    /\ downloading = <<>>
    /\ picker = <<>>
    /\ conns = <<>>
    /\ pool = <<>>
    /\ kind = <<>>
    /\ inbox = <<>>
    /\ peer = <<>>
    /\ piece_data = <<>>
    /\ receive_result = <<>>
    /\ requested = <<>>
    /\ files = <<>>
    /\ disk = <<>>
    /\ outcome = "running"

\* blocks_in_piece(0), then get_block_info(0, block) for any block index, as
\* built with or without overflow checks.
CallGetBlockInfo ==
    /\ UNCHANGED <<torrentVars, codecVars, lockVars>>
    /\ \E block \in RealBlocks, overflow_checks \in BOOLEAN :
          /\ pc' = <<"get_block_info">>
          /\ piece_index' = <<blocks_in_piece_u64(total_length)>>
          /\ block_index' = <<block>>
          /\ result' = <<get_block_info_u32(total_length, block, overflow_checks)>>
    /\ UNCHANGED <<total_length, pieces, downloading, picker, conns, pool, kind,
                   inbox, peer, piece_data, receive_result, requested, files,
                   disk, outcome>>

NextBlocks == CallGetBlockInfo

SpecBlocks == InitBlocks /\ [][NextBlocks]_vars

PickerSizes == {3, 20}
\* update_peer_pieces is not called once a piece has this availability.
MaxAvailability == 2

\* Bitfields of up to three bytes: 24 bits for at most 20 pieces.
PeerBitfields ==
    {<<>>, <<0>>, <<240>>, <<255>>, <<255, 240>>, <<15, 255>>,
     <<255, 240, 0>>, <<0, 0, 255>>, <<1, 128, 16>>, <<255, 255, 255>>}

\* A new session and a new picker; nothing else of a download runs.
InitBitfield ==
    /\ LocksIdle
    /\ TorrentIdle
    /\ CodecIdle
    /\ conns = <<[state |-> PeerState_default, bitfield |-> None]>>
    /\ \E n \in PickerSizes : picker = PiecePicker_of(n)
    /\ total_length = 0
    /\ pieces = <<>>
    /\ downloading = <<>>
    /\ pool = <<>>
    /\ kind = <<>>
    /\ inbox = <<>>
    /\ pc = <<>>
    /\ piece_index = <<>>
    /\ peer = <<>>
    /\ block_index = <<>>
    /\ piece_data = <<>>
    /\ result = <<>>
    /\ receive_result = <<>>
    /\ requested = <<>>
    /\ files = <<>>
    /\ disk = <<>>
    /\ outcome = "running"

\* connection.rs 110-121: a Bitfield frame is received on the session.
ReceiveBitfield ==
    /\ UNCHANGED <<torrentVars, codecVars, lockVars>>
    /\ \E b \in PeerBitfields :
          conns' = <<handle_message(conns[1], Bitfield(b))>>
    /\ UNCHANGED <<total_length, pieces, downloading, picker, pool, kind, inbox,
                   pc, piece_index, peer, block_index, piece_data, result,
                   receive_result, requested, files, disk, outcome>>

\* picker.rs 31-37: update_peer_pieces with the session's recorded bitfield.
UpdatePeerPieces ==
    /\ UNCHANGED <<torrentVars, codecVars, lockVars>>
    /\ conns[1].bitfield # None
    /\ \A i \in DOMAIN picker.piece_availability :
          picker.piece_availability[i] < MaxAvailability
    /\ picker' = update_peer_pieces(picker, conns[1].bitfield[1])
    /\ UNCHANGED <<total_length, pieces, downloading, conns, pool, kind, inbox,
                   pc, piece_index, peer, block_index, piece_data, result,
                   receive_result, requested, files, disk, outcome>>

NextBitfield == ReceiveBitfield \/ UpdatePeerPieces

SpecBitfield == InitBitfield /\ [][NextBitfield]_vars

\* Bit k of `byte` is set, bit 7 being the most significant one.
BitSet(byte, k) == byte % (2 ^ (k + 1)) >= 2 ^ k

\* The positions of the set bits of a recorded bitfield (Option), counted
\* from the most significant bit of its first byte.
SetBits(bitfield) ==
    IF bitfield = None THEN {}
    ELSE {i \in 0 .. 8 * Len(bitfield[1]) - 1 :
             BitSet(bitfield[1][(i \div 8) + 1], 7 - (i % 8))}

\* C35: has_piece(i) is true exactly for the set bits of the recorded
\* bitfield, counted from the most significant bit of the first byte (false
\* without a bitfield), and update_peer_pieces(b) adds one to the
\* availability of exactly the pieces below the piece count whose bit is
\* set; with 20 pieces, [0xFF, 0xF0, 0x00] means pieces 0..11.
C35_BitfieldMsbFirst ==
    [][/\ \A c \in {conns[1], conns'[1]} :
             /\ \A i \in 0 .. 31 : has_piece(c, i) <=> i \in SetBits(c.bitfield)
             /\ c.bitfield = Some(<<255, 240, 0>>)
                   => {i \in 0 .. 19 : has_piece(c, i)} = 0 .. 11
       /\ picker' # picker =>
             /\ DOMAIN picker'.piece_availability = DOMAIN picker.piece_states
             /\ \A i \in DOMAIN picker.piece_states :
                   picker'.piece_availability[i] =
                      picker.piece_availability[i]
                      + (IF i \in SetBits(conns[1].bitfield) THEN 1 ELSE 0)
             /\ picker'.piece_states = picker.piece_states]_vars

\* The session of a 20-piece torrent recorded [0xFF, 0xF0, 0x00] after its
\* bitfields were counted twice, once with bits set beyond piece 19.
C35_Witness ==
    /\ conns[1].bitfield = Some(<<255, 240, 0>>)
    /\ total_pieces(picker) = 20
    /\ picker.piece_availability[0] = 2
    /\ picker.piece_availability[11] = 1
    /\ picker.piece_availability[12] = 0
    /\ picker.piece_availability[19] = 1

\* ------------------------------------------------------ pick_piece by itself
\* Catalog states of the PickerPieces pieces: any state for the first three,
\* the others all Missing or all Complete.
CatalogStates ==
    {[i \in 0 .. PickerPieces - 1 |-> IF i < 3 THEN f[i] ELSE rest] :
        f \in [0 .. 2 -> {"Missing", "Downloading", "Complete"}],
        rest \in {"Missing", "Complete"}}

\* Picker states of the pieces: any state for the first two (Complete only
\* after mark_complete has ended the random-first regime), the others all
\* Missing or all Downloading.
PickerStates(random_first) ==
    {[i \in 0 .. PickerPieces - 1 |-> IF i < 2 THEN f[i] ELSE rest] :
        f \in [0 .. 1 -> IF random_first
                         THEN {"Missing", "Downloading"}
                         ELSE {"Missing", "Downloading", "Complete"}],
        rest \in {"Missing", "Downloading"}}

\* Availabilities: all equal, rising and falling with the index.
Availabilities ==
    {[i \in 0 .. PickerPieces - 1 |-> 0],
     [i \in 0 .. PickerPieces - 1 |-> i % 3],
     [i \in 0 .. PickerPieces - 1 |-> (PickerPieces - i) % 4]}

\* A PieceManager and a PiecePicker in any of these states; result holds
\* what the last pick_piece call returned.
InitPick ==
    /\ LocksIdle
    /\ TorrentIdle
    /\ CodecIdle
    /\ total_length = PickerPieces
    /\ \E states \in CatalogStates :
          pieces = [index \in 0 .. PickerPieces - 1 |->
                       [length |-> 1, state |-> states[index],
                        hash |-> Sha1(PieceContent(index, 1))]]
    /\ \E random_first \in BOOLEAN, endgame_mode \in BOOLEAN :
       \E states \in PickerStates(random_first), availability \in Availabilities :
          picker = [piece_states       |-> states,
                    piece_availability |-> availability,
                    random_first       |-> random_first,
                    downloaded_count   |-> IF random_first THEN 0
                                           ELSE RANDOM_FIRST_PIECES,
                    endgame_mode       |-> endgame_mode]
    /\ pc = <<"new">>
    /\ result = <<None>>
    /\ downloading = <<>>
    /\ conns = <<>>
    /\ pool = <<>>
    /\ kind = <<>>
    /\ inbox = <<>>
    /\ piece_index = <<>>
    /\ peer = <<>>
    /\ block_index = <<>>
    /\ piece_data = <<>>
    /\ receive_result = <<>>
    /\ requested = <<>>
    /\ files = <<>>
    /\ disk = <<>>
    /\ outcome = "running"

\* picker.rs 67-124: pick_piece(piece_manager).
CallPickPiece ==
    /\ UNCHANGED <<torrentVars, codecVars, lockVars>>
    /\ LET pk == EnterEndgame(picker)
           avail == available_pieces(pk, pieces)
       IN IF avail = {}
          THEN /\ picker' = pk
               /\ result' = <<None>>
          ELSE \E selected \in Selectable(pk, avail) :
                  /\ picker' = AfterSelect(pk, selected)
                  /\ result' = <<Some(selected)>>
    /\ pc' = <<"pick_piece">>
    /\ UNCHANGED <<total_length, pieces, downloading, conns, pool, kind, inbox,
                   piece_index, peer, block_index, piece_data, receive_result,
                   requested, files, disk, outcome>>

NextPick == CallPickPiece

SpecPick == InitPick /\ [][NextPick]_vars

\* C37: pick_piece returns only a piece that is Missing in the catalog at
\* the time of the call, and None exactly when no catalog-Missing piece is
\* selectable: every one of them is Downloading in the picker and the
\* picker is not in endgame mode after the call's switch.
C37_PickOnlyCatalogMissing ==
    [][LET r == result'[1]
           selectable ==
              {i \in DOMAIN pieces :
                  /\ pieces[i].state = "Missing"
                  /\ picker'.endgame_mode \/ picker.piece_states[i] # "Downloading"}
       IN /\ r # None => pieces[r[1]].state = "Missing"
          /\ r = None <=> selectable = {}]_vars

\* Rarest-first outside endgame mode returned a piece that the picker holds
\* Complete and the catalog Missing, next to pieces Downloading and Complete
\* in the catalog.
C37_Witness ==
    /\ pc = <<"pick_piece">>
    /\ result # <<None>>
    /\ ~picker.random_first
    /\ ~picker.endgame_mode
    /\ \E i, j \in DOMAIN pieces :
          pieces[i].state = "Downloading" /\ pieces[j].state = "Complete"

\* ------------------------------------------------------ the tasks and locks
\* piece_picker, piece_manager and peer_connections: Arc<tokio::sync::Mutex>.
Locks == {"picker", "manager", "pool"}

\* The progress task, the worker tasks and download() itself.
ProgressTask == 0
MainTask == NumPeers + 1
Tasks == 0 .. NumPeers + 1

\* pick_piece with the two lock calls exchanged.
Mut_PickLock(k) == IF k = 1 THEN "manager" ELSE "picker"

\* client/mod.rs 184-185: the k-th lock taken for pick_piece.
PickLock(k) == IF k = 1 THEN "picker" ELSE "manager"

Lock(l, next) == [op |-> "lock", lock |-> l, next |-> next]
Unlock(l, next) == [op |-> "unlock", lock |-> l, next |-> next]
Await(next) == [op |-> "io", lock |-> "none", next |-> next]
End == [op |-> "end", lock |-> "none", next |-> {}]

\* What a task does at the source line `pos` and where it may go from there.
\* A lock is released where its guard's scope ends, also on a `?` return; the
\* calls made under the lock belong to the step that releases it.
Program(pos) ==
    CASE pos = "w184" -> Lock(PickLock(1), {"w185"})
      [] pos = "w185" -> Lock(PickLock(2), {"w186"})
      [] pos = "w186" -> Unlock(PickLock(2), {"w187"})       \* pick_piece
      [] pos = "w187" -> Unlock(PickLock(1), {"w199", "done"})
      [] pos = "w199" -> Lock("pool", {"w203"})
      [] pos = "w203" -> Unlock("pool", {"w209", "w288"})     \* pop, has_piece
      [] pos = "w209" -> Lock("pool", {"w210"})
      [] pos = "w210" -> Unlock("pool", {"w184"})             \* push, continue
      [] pos = "w288" -> Lock("manager", {"w289"})
      [] pos = "w289" -> Unlock("manager", {"w293", "w232"})  \* start_piece
      [] pos = "w293" -> Await({"w334", "w232"})              \* Interested, Unchoke
      [] pos = "w334" -> Lock("manager", {"w335"})
      [] pos = "w335" -> Unlock("manager", {"w340", "w386"})  \* blocks_in_piece
      [] pos = "w340" -> Lock("manager", {"w341"})
      [] pos = "w341" -> Unlock("manager", {"w346", "w232"})  \* get_block_info
      [] pos = "w346" -> Await({"w360", "w340", "w386", "w232"}) \* Request, receive
      [] pos = "w360" -> Lock("manager", {"w361"})
      [] pos = "w361" -> Unlock("manager", {"w340", "w386", "w232"}) \* add_block
      [] pos = "w386" -> Lock("manager", {"w387"})
      [] pos = "w387" -> Unlock("manager", {"w391", "w232"})  \* complete_piece
      [] pos = "w391" -> Await({"w232"})                      \* write_piece
      [] pos = "w232" -> Lock("pool", {"w233"})
      [] pos = "w233" -> Unlock("pool", {"w184", "w243"})     \* push
      [] pos = "w243" -> Lock("picker", {"w244"})
      [] pos = "w244" -> Unlock("picker", {"w184"})           \* mark_missing
      [] pos = "p140" -> Await({"p143"})                      \* sleep
      [] pos = "p143" -> Lock("manager", {"p144"})
      [] pos = "p144" -> Unlock("manager", {"p140", "done"})  \* is_complete
      [] pos = "m263" -> Lock("manager", {"m264"})
      [] pos = "m264" -> Unlock("manager", {"returned"})
      [] OTHER        -> End

\* The tasks as spawned (client/mod.rs 137, 180) and download() waiting for
\* the workers (254); pc holds each task's position.
InitLocks ==
    /\ TorrentIdle
    /\ CodecIdle
    /\ locks = [l \in Locks |-> [holder |-> None, waiters |-> <<>>]]
    /\ pc = [t \in Tasks |-> IF t = ProgressTask THEN "p140"
                             ELSE IF t = MainTask THEN "m254" ELSE "w184"]
    /\ total_length = 0
    /\ pieces = <<>>
    /\ downloading = <<>>
    /\ picker = <<>>
    /\ conns = <<>>
    /\ pool = <<>>
    /\ kind = <<>>
    /\ inbox = <<>>
    /\ piece_index = <<>>
    /\ peer = <<>>
    /\ block_index = <<>>
    /\ piece_data = <<>>
    /\ result = <<>>
    /\ receive_result = <<>>
    /\ requested = <<>>
    /\ files = <<>>
    /\ disk = <<>>
    /\ outcome = "running"

LocksOnly ==
    /\ UNCHANGED <<total_length, pieces, downloading, picker, conns, pool, kind,
                   inbox, piece_index, peer, block_index, piece_data, result,
                   receive_result, requested, files, disk, outcome>>
    /\ UNCHANGED <<torrentVars, codecVars>>

IsWaiter(t, l) == \E k \in 1 .. Len(locks[l].waiters) : locks[l].waiters[k] = t

\* lock().await on a free Mutex: the task takes it if no task waits for it
\* or if it is the first of those that do (tokio's Mutex is FIFO-fair).
Acquire(t) ==
    LET s == Program(pc[t])
    IN /\ s.op = "lock"
       /\ locks[s.lock].holder = None
       /\ IF locks[s.lock].waiters = <<>> THEN TRUE
          ELSE Head(locks[s.lock].waiters) = t
       /\ locks' = [locks EXCEPT ![s.lock] =
                       [holder |-> Some(t),
                        waiters |-> IF @.waiters = <<>> THEN <<>>
                                    ELSE Tail(@.waiters)]]
       /\ \E next \in s.next : pc' = [pc EXCEPT ![t] = next]
       /\ LocksOnly

\* lock().await on a Mutex that is held or waited for: the task queues up.
Enqueue(t) ==
    LET s == Program(pc[t])
    IN /\ s.op = "lock"
       /\ ~IsWaiter(t, s.lock)
       /\ locks[s.lock].holder # None \/ locks[s.lock].waiters # <<>>
       /\ locks' = [locks EXCEPT ![s.lock].waiters = Append(@, t)]
       /\ UNCHANGED pc
       /\ LocksOnly

\* The end of a guard's scope.
Release(t) ==
    LET s == Program(pc[t])
    IN /\ s.op = "unlock"
       /\ locks' = [locks EXCEPT ![s.lock].holder = None]
       /\ \E next \in s.next : pc' = [pc EXCEPT ![t] = next]
       /\ LocksOnly

\* A network or storage operation, or the progress task's sleep, returns.
Outside(t) ==
    LET s == Program(pc[t])
    IN /\ s.op = "io"
       /\ t = ProgressTask => pc[MainTask] = "m254"
       /\ \E next \in s.next : pc' = [pc EXCEPT ![t] = next]
       /\ UNCHANGED locks
       /\ LocksOnly

\* The waiters of lock l without task t.
Without(waiters, t) == SelectSeq(waiters, LAMBDA x : x # t)

\* client/mod.rs 254-259: every worker has ended; progress_task.abort()
\* cancels the progress task where it awaits (its sleep or its lock call).
Join ==
    /\ pc[MainTask] = "m254"
    /\ \A w \in Workers : pc[w] = "done"
    /\ pc' = [pc EXCEPT ![MainTask] = "m263",
                        ![ProgressTask] = IF @ \in {"p140", "p143"}
                                          THEN "cancelled" ELSE @]
    /\ locks' = [locks EXCEPT !["manager"].waiters = Without(@, ProgressTask)]
    /\ LocksOnly

\* The aborted progress task reaches its sleep.
Cancelled ==
    /\ pc[MainTask] # "m254"
    /\ pc[ProgressTask] = "p140"
    /\ pc' = [pc EXCEPT ![ProgressTask] = "cancelled"]
    /\ UNCHANGED locks
    /\ LocksOnly

NextLocks ==
    \/ \E t \in Tasks : Acquire(t)
    \/ \E t \in Tasks : Enqueue(t)
    \/ \E t \in Tasks : Release(t)
    \/ \E t \in Tasks : Outside(t)
    \/ Join
    \/ Cancelled

SpecLocks == InitLocks /\ [][NextLocks]_vars

\* The runtime keeps polling a task that is ready: its lock call is polled,
\* which takes the Mutex or queues the task up, and no await lies between a
\* lock call's return and its guard's drop.
FairSpecLocks ==
    SpecLocks /\ \A t \in Tasks : /\ WF_vars(Acquire(t) \/ Enqueue(t))
                                  /\ WF_vars(Release(t))

Holds(t, l) == locks[l].holder = Some(t)

Wants(t, l) == Program(pc[t]).op = "lock" /\ Program(pc[t]).lock = l

\* C39: picker and manager are only nested in the order picker, manager;
\* every other critical section holds one lock; no lock is held across a
\* network or storage operation; a task that waits for a lock eventually
\* holds it (unless it is the aborted progress task).
C39_NoDeadlock ==
    /\ [](\A t \in Tasks :
            LET held == {l \in Locks : Holds(t, l)}
            IN /\ held \in {{}, {"picker"}, {"manager"}, {"pool"},
                            {"picker", "manager"}}
               /\ \A l \in Locks :
                     Wants(t, l) => \/ held = {}
                                    \/ held = {"picker"} /\ l = "manager"
               /\ Program(pc[t]).op \in {"io", "end"} => held = {})
    /\ \A t \in Tasks : \A l \in Locks :
          Wants(t, l) ~> (Holds(t, l) \/ pc[t] = "cancelled")

\* A worker holds the picker lock and waits for the manager lock behind the
\* progress task, while the other worker holds the manager lock.
C39_Witness ==
    \E w, v \in Workers :
        /\ Holds(w, "picker")
        /\ Wants(w, "manager")
        /\ Holds(v, "manager")
        /\ locks["manager"].waiters = <<ProgressTask, w>>

====
